---- MODULE Spec2Model ----
(***************************************************************************)
(* SpendIQ front end: category override and alias reconciliation, the      *)
(* asynchronous categorization passes of App.tsx and the identity-scoped   *)
(* dashboard cache.                                                        *)
(*                                                                         *)
(* Strings are tuples of one-character strings, so that trim(),            *)
(* toLowerCase(), includes() and the case-insensitive compare of           *)
(* categoryNameMatches are computed and not assumed.                       *)
(***************************************************************************)
EXTENDS Integers, Sequences, FiniteSets, TLC

(***************************************************************************)
(* String literals of the source and of the modelled inputs.               *)
(***************************************************************************)
Other == <<"O", "t", "h", "e", "r">>
Dining == <<"D", "i", "n", "i", "n", "g">>
Restaurants == <<"R", "e", "s", "t", "a", "u", "r", "a", "n", "t", "s">>
CATEGORY_ALIAS_MERCHANT ==
    <<"_", "_", "C", "A", "T", "E", "G", "O", "R", "Y", "_", "A", "L", "I", "A", "S", "_", "_">>

otherLower == <<"o", "t", "h", "e", "r">>
Groceries == <<"G", "r", "o", "c", "e", "r", "i", "e", "s">>
feesLower == <<"f", "e", "e", "s">>
groceriesLower == <<"g", "r", "o", "c", "e", "r", "i", "e", "s">>
Food == <<"F", "o", "o", "d">>
FoodPadded == <<" ", "F", "o", "o", "d", " ">>
Shopping == <<"S", "h", "o", "p", "p", "i", "n", "g">>
Shop == <<"S", "h", "o", "p">>
Fees == <<"F", "e", "e", "s">>
TaxesFees == <<"T", "a", "x", "e", "s", "/", "F", "e", "e", "s">>
Old == <<"O", "l", "d">>
Misc == <<"M", "i", "s", "c">>
Transport == <<"T", "r", "a", "n", "s", "p", "o", "r", "t">>
TransportFuel == <<"T", "r", "a", "n", "s", "p", "o", "r", "t", "/", "F", "u", "e", "l">>
Utilities == <<"U", "t", "i", "l", "i", "t", "i", "e", "s">>
InternetPhone == <<"I", "n", "t", "e", "r", "n", "e", "t", "/", "P", "h", "o", "n", "e">>
HomeDIY == <<"H", "o", "m", "e", "/", "D", "I", "Y">>
Subscriptions == <<"S", "u", "b", "s", "c", "r", "i", "p", "t", "i", "o", "n", "s">>
Entertainment == <<"E", "n", "t", "e", "r", "t", "a", "i", "n", "m", "e", "n", "t">>
Bills == <<"B", "i", "l", "l", "s">>
Loans == <<"L", "o", "a", "n", "s">>
Savings == <<"S", "a", "v", "i", "n", "g", "s">>
Transfers == <<"T", "r", "a", "n", "s", "f", "e", "r", "s">>
EmptyString == <<>>

\* JavaScript undefined / null, a value no text equals
Undefined == <<"undefined">>

\* merchants and titles of the modelled statements
MerchantA == <<"A">>
TitleB == <<"B">>
MerchantShop == Shop
TitlePOS == <<"P", "O", "S">>
MerchantCafe == <<"C", "a", "f", "e">>
MerchantBank == <<"B", "a", "n", "k">>

\* account identifiers as the server returns them
UserA == <<"a", "@", "x">>
UserB == <<"B", "@", "x">>
NoUser == Undefined

(***************************************************************************)
(* String.prototype functions                                              *)
(***************************************************************************)
UpperToLower ==
    ("A" :> "a") @@ ("B" :> "b") @@ ("C" :> "c") @@ ("D" :> "d") @@ ("E" :> "e") @@
    ("F" :> "f") @@ ("G" :> "g") @@ ("H" :> "h") @@ ("I" :> "i") @@ ("J" :> "j") @@
    ("K" :> "k") @@ ("L" :> "l") @@ ("M" :> "m") @@ ("N" :> "n") @@ ("O" :> "o") @@
    ("P" :> "p") @@ ("Q" :> "q") @@ ("R" :> "r") @@ ("S" :> "s") @@ ("T" :> "t") @@
    ("U" :> "u") @@ ("V" :> "v") @@ ("W" :> "w") @@ ("X" :> "x") @@ ("Y" :> "y") @@
    ("Z" :> "z")

LowerChar(c) == IF c \in DOMAIN UpperToLower THEN UpperToLower[c] ELSE c

ToLowerCase(s) == [i \in 1..Len(s) |-> LowerChar(s[i])]

RECURSIVE TrimStart(_)
TrimStart(s) == IF s # <<>> /\ Head(s) = " " THEN TrimStart(Tail(s)) ELSE s

RECURSIVE TrimEnd(_)
TrimEnd(s) ==
    IF s # <<>> /\ s[Len(s)] = " " THEN TrimEnd(SubSeq(s, 1, Len(s) - 1)) ELSE s

Trim(s) == TrimEnd(TrimStart(s))

\* s.includes(sub)
Includes(s, sub) ==
    \E i \in 0..(Len(s) - Len(sub)) : SubSeq(s, i + 1, i + Len(sub)) = sub

\* String(x ?? '')
StringOrEmpty(x) == IF x = Undefined THEN EmptyString ELSE x

(***************************************************************************)
(* JavaScript objects with string keys: a sequence of <<key, value>> in    *)
(* insertion order; assigning an existing key keeps its position.          *)
(***************************************************************************)
ObjKeys(o) == {o[i][1] : i \in 1..Len(o)}

ObjHas(o, k) == k \in ObjKeys(o)

ObjGet(o, k) == o[CHOOSE i \in 1..Len(o) : o[i][1] = k][2]

ObjPut(o, k, v) ==
    IF ObjHas(o, k)
    THEN [i \in 1..Len(o) |-> IF o[i][1] = k THEN <<k, v>> ELSE o[i]]
    ELSE Append(o, <<k, v>>)

RECURSIVE ObjDelete(_, _)
ObjDelete(o, k) ==
    IF o = <<>> THEN <<>>
    ELSE IF Head(o)[1] = k THEN ObjDelete(Tail(o), k)
    ELSE <<Head(o)>> \o ObjDelete(Tail(o), k)

\* { ...a, ...b }
RECURSIVE ObjSpread(_, _)
ObjSpread(a, b) ==
    IF b = <<>> THEN a ELSE ObjSpread(ObjPut(a, Head(b)[1], Head(b)[2]), Tail(b))

(***************************************************************************)
(* Category names                                                          *)
(***************************************************************************)
DiningToRestaurants(c) == IF c = Dining THEN Restaurants ELSE c

\* the category list is duplicate-free wherever the source builds it
\* (Array.from(new Set(...))) and no operation depends on its order: a set
normalizeCategories(cats) ==
    ({Trim(DiningToRestaurants(c)) : c \in cats} \ {EmptyString}) \cup {Other}

categoryNameMatches(value, target) ==
    LET a == Trim(StringOrEmpty(value))
        b == Trim(StringOrEmpty(target))
    IN  /\ a # EmptyString
        /\ b # EmptyString
        /\ (a = b \/ ToLowerCase(a) = ToLowerCase(b))

makeCategoryAliasKey(oldName) == <<CATEGORY_ALIAS_MERCHANT, Trim(oldName)>>

makeOverrideKey(merchant, type) == <<Trim(merchant), Trim(type)>>

\* key.split('||'): override keys are kept as their tuple of segments
KeyOldName(key) == IF Len(key) >= 2 THEN key[2] ELSE Undefined

RECURSIVE extractCategoryAliases(_)
extractCategoryAliases(overrides) ==
    IF overrides = <<>> THEN <<>>
    ELSE LET key == overrides[Len(overrides)][1]
             value == overrides[Len(overrides)][2]
             rest == extractCategoryAliases(SubSeq(overrides, 1, Len(overrides) - 1))
             from == Trim(StringOrEmpty(KeyOldName(key)))
             to == Trim(StringOrEmpty(value))
         IN  IF key[1] # CATEGORY_ALIAS_MERCHANT THEN rest
             ELSE IF from # EmptyString /\ to # EmptyString THEN ObjPut(rest, from, to)
             ELSE rest

\* the loop of applyCategoryAliases: the first entry whose old name matches
RECURSIVE FirstAliasMatch(_, _)
FirstAliasMatch(mapped, aliases) ==
    IF aliases = <<>> THEN mapped
    ELSE IF categoryNameMatches(mapped, Head(aliases)[1]) THEN Head(aliases)[2]
    ELSE FirstAliasMatch(mapped, Tail(aliases))

\* applyCategoryAliases on one transaction's category
ApplyAliasToCategory(category, categories, aliases) ==
    LET raw == IF category = Undefined THEN Other ELSE category
        mapped == DiningToRestaurants(FirstAliasMatch(raw, aliases))
    IN  IF mapped \notin categories /\ Other \in categories THEN Other ELSE mapped

applyCategoryAliases(txs, categories, aliases) ==
    [i \in 1..Len(txs) |->
        [txs[i] EXCEPT !.category = ApplyAliasToCategory(@, categories, aliases)]]

\* Array.from(new Set(xs)): first occurrences, in order
RECURSIVE Distinct(_)
Distinct(xs) ==
    IF xs = <<>> THEN <<>>
    ELSE LET init == Distinct(SubSeq(xs, 1, Len(xs) - 1))
             last == xs[Len(xs)]
         IN  IF \E i \in 1..Len(init) : init[i] = last THEN init ELSE Append(init, last)

RECURSIVE inferAliasesFor(_, _)
inferAliasesFor(unknown, categories) ==
    IF unknown = <<>> THEN <<>>
    ELSE LET oldName == Head(unknown)
             oldNorm == ToLowerCase(oldName)
             candidates == {c \in categories :
                               \/ Includes(ToLowerCase(c), oldNorm)
                               \/ Includes(oldNorm, ToLowerCase(c))}
             rest == inferAliasesFor(Tail(unknown), categories)
         IN  IF Cardinality(candidates) = 1
             THEN <<<<oldName, CHOOSE c \in candidates : TRUE>>>> \o rest
             ELSE rest

inferCategoryAliasesFromExistingData(txs, categories) ==
    LET trimmed == [i \in 1..Len(txs) |-> Trim(StringOrEmpty(txs[i].category))]
        unknown == SelectSeq(Distinct(trimmed),
                             LAMBDA c : c # EmptyString /\ c \notin categories)
    IN  inferAliasesFor(unknown, categories)

(***************************************************************************)
(* Bounds of the model                                                     *)
(***************************************************************************)
\* handlers whose awaited call has not returned yet
MaxInflight == 2
\* user actions explored from the initial state
MaxActions == 2

(***************************************************************************)
(* Program constants                                                       *)
(***************************************************************************)
DEFAULT_CATEGORIES ==
    {Groceries, Restaurants, Transport, TransportFuel, Utilities, InternetPhone, Shopping,
     HomeDIY, Subscriptions, Entertainment, Bills, Fees, TaxesFees, Loans, Savings,
     Transfers, Other}
defaultCategories == normalizeCategories(DEFAULT_CATEGORIES)

DASHBOARD_CACHE_PREFIX == "expenses-helper.dashboard-cache.v2"
STATEMENT_DETAILS_CACHE_PREFIX == "expenses-helper.statement-details-cache.v2"
LEGACY_DASHBOARD_CACHE_KEY == <<"expenses-helper.dashboard-cache.v1">>
LEGACY_STATEMENT_DETAILS_CACHE_KEY == <<"expenses-helper.statement-details-cache.v1">>

\* JavaScript null where the source holds an object or null
Null == <<>>

VARIABLES
    entryMode,        \* 'landing' | 'anonymous' | 'account'
    userEmail,        \* account identifier or NoUser
    authLoading,      \* TRUE until the authMe bootstrap has settled
    cookieConsent,    \* [preferences, performance]
    categories,       \* Category Set
    overrides,        \* override map, alias entries included
    txs,              \* transactions of the current view
    statementDetails, \* details of the imported statement or Null
    editingCategory,  \* name being renamed or Undefined
    loading,
    error,            \* TRUE when an error notice is set
    inflight,         \* handlers suspended at an await
    pendingLoad,      \* state updates scheduled by the cache load effect, if any
    sessionStorage,   \* browser session storage: the dashboard cache
    localStore,       \* browser local storage: [overrides, categories]
    remoteStore,      \* per-account persistence: user -> [overrides, categories]
    actionsLeft,      \* user actions still explored (bound)
    savingsAccounts   \* configured savings accounts (normalized IBANs)

vars == <<entryMode, userEmail, authLoading, cookieConsent, categories, overrides, txs,
          statementDetails, editingCategory, loading, error, inflight, pendingLoad,
          sessionStorage, localStore, remoteStore, actionsLeft, savingsAccounts>>

(***************************************************************************)
(* Transactions and the collaborators                                      *)
(***************************************************************************)
\* rule: the category the Base Categorizer's rules give this transaction
Tx(merchant, title, rule) ==
    [merchant |-> merchant, title |-> title, rule |-> rule, category |-> Undefined]

Files == {"statement1.pdf", "statement2.pdf"}

\* Statement Parser: the transactions of each document
parseStatement(file) ==
    IF file = "statement1.pdf"
    THEN <<Tx(MerchantA, TitleB, Shopping), Tx(MerchantBank, TitlePOS, Fees)>>
    ELSE <<Tx(MerchantShop, TitlePOS, Groceries), Tx(MerchantCafe, TitlePOS, Dining)>>

\* Base Categorizer: a merchant+type override is honoured, otherwise the rules
categorize(transactions, merchantOverrides) ==
    [i \in 1..Len(transactions) |->
        LET t == transactions[i]
            key == makeOverrideKey(t.merchant, t.title)
        IN  [t EXCEPT !.category =
                IF ObjHas(merchantOverrides, key) THEN ObjGet(merchantOverrides, key)
                ELSE t.rule]]

\* txs.map(t => ({ ...t, category: undefined }))
StripCategory(transactions) ==
    [i \in 1..Len(transactions) |-> [transactions[i] EXCEPT !.category = Undefined]]

\* categorized.map(t => ({...t, category: t.category === 'Dining' ? 'Restaurants' : t.category}))
NormalizeDining(transactions) ==
    [i \in 1..Len(transactions) |->
        [transactions[i] EXCEPT !.category = DiningToRestaurants(@)]]

\* the merged alias map: inferred first, explicit spread second
MergedAliases(existing, cats, ovr) ==
    ObjSpread(inferCategoryAliasesFromExistingData(existing, cats),
              extractCategoryAliases(ovr))

(***************************************************************************)
(* Dashboard cache over sessionStorage.  A stored item is the text that    *)
(* JSON.parse reads: an array, an object, another JSON value or text that  *)
(* does not parse.                                                         *)
(***************************************************************************)
JsonArray(v) == [tag |-> "array", v |-> v]
JsonObject(v) == [tag |-> "object", v |-> v]
JsonNumber == [tag |-> "number", v |-> Null]
Unparseable == [tag |-> "unparseable", v |-> Null]

canUsePerformanceStorage(consent) == consent.performance
canUsePreferencesStorage(consent) == consent.preferences

getDashboardCacheKey(mode, email) ==
    IF mode = "anonymous" THEN <<DASHBOARD_CACHE_PREFIX, "anonymous">>
    ELSE <<DASHBOARD_CACHE_PREFIX, "account", ToLowerCase(StringOrEmpty(email))>>

getStatementDetailsCacheKey(mode, email) ==
    IF mode = "anonymous" THEN <<STATEMENT_DETAILS_CACHE_PREFIX, "anonymous">>
    ELSE <<STATEMENT_DETAILS_CACHE_PREFIX, "account", ToLowerCase(StringOrEmpty(email))>>

EmptyCache == [txs |-> <<>>, statementDetails |-> Null]

StorageSet(storage, key, value) ==
    [k \in DOMAIN storage \cup {key} |-> IF k = key THEN value ELSE storage[k]]

StorageRemove(storage, key) == [k \in DOMAIN storage \ {key} |-> storage[k]]

\* the two getItem + JSON.parse of one try block: <<the cached view>>, or <<>>
\* when the transactions are no array or a JSON.parse throws
ReadCachePair(storage, txKey, detailsKey) ==
    LET txPresent == txKey \in DOMAIN storage
        detailsPresent == detailsKey \in DOMAIN storage
        threw == \/ txPresent /\ storage[txKey].tag = "unparseable"
                 \/ detailsPresent /\ storage[detailsKey].tag = "unparseable"
    IN  IF threw \/ ~txPresent \/ storage[txKey].tag # "array" THEN <<>>
        ELSE <<[txs |-> storage[txKey].v,
                statementDetails |->
                    IF detailsPresent /\ storage[detailsKey].tag \in {"object", "array"}
                    THEN storage[detailsKey].v ELSE Null]>>

\* the load with the legacy fallback open to every mode
loadDashboardCacheAnyMode(storage, consent, mode, email) ==
    IF ~canUsePerformanceStorage(consent) THEN EmptyCache
    ELSE LET versioned == ReadCachePair(storage, getDashboardCacheKey(mode, email),
                                        getStatementDetailsCacheKey(mode, email))
             legacy == ReadCachePair(storage, LEGACY_DASHBOARD_CACHE_KEY,
                                     LEGACY_STATEMENT_DETAILS_CACHE_KEY)
         IN  IF versioned # <<>> THEN versioned[1]
             ELSE IF legacy # <<>> THEN legacy[1]
             ELSE EmptyCache

loadDashboardCacheForContext(storage, consent, mode, email) ==
    IF ~canUsePerformanceStorage(consent) THEN EmptyCache
    ELSE LET versioned == ReadCachePair(storage, getDashboardCacheKey(mode, email),
                                        getStatementDetailsCacheKey(mode, email))
             legacy == ReadCachePair(storage, LEGACY_DASHBOARD_CACHE_KEY,
                                     LEGACY_STATEMENT_DETAILS_CACHE_KEY)
         IN  IF versioned # <<>> THEN versioned[1]
             ELSE IF mode = "anonymous" /\ legacy # <<>> THEN legacy[1]
             ELSE EmptyCache

saveDashboardCacheKeepingDetails(storage, consent, mode, email, transactions, details) ==
    IF ~canUsePerformanceStorage(consent) THEN storage
    ELSE LET withTxs == StorageSet(storage, getDashboardCacheKey(mode, email),
                                   JsonArray(transactions))
         IN  IF details # Null
             THEN StorageSet(withTxs, getStatementDetailsCacheKey(mode, email),
                             JsonObject(details))
             ELSE withTxs

saveDashboardCacheForContext(storage, consent, mode, email, transactions, details) ==
    IF ~canUsePerformanceStorage(consent) THEN storage
    ELSE LET withTxs == StorageSet(storage, getDashboardCacheKey(mode, email),
                                   JsonArray(transactions))
         IN  IF details # Null
             THEN StorageSet(withTxs, getStatementDetailsCacheKey(mode, email),
                             JsonObject(details))
             ELSE StorageRemove(withTxs, getStatementDetailsCacheKey(mode, email))

clearDashboardCacheForContext(storage, consent, mode, email) ==
    IF ~canUsePerformanceStorage(consent) THEN storage
    ELSE StorageRemove(StorageRemove(storage, getDashboardCacheKey(mode, email)),
                       getStatementDetailsCacheKey(mode, email))

(***************************************************************************)
(* Derived values of a render                                              *)
(***************************************************************************)
isLoggedIn(email) == email # NoUser

canUseDashboard(mode, email) ==
    mode = "anonymous" \/ (mode = "account" /\ isLoggedIn(email))

\* the effect that saves the view, as run by a render with these values
CacheSaveEffect(storage, consent, authL, mode, email, transactions, details) ==
    IF authL \/ ~canUseDashboard(mode, email) THEN storage
    ELSE saveDashboardCacheForContext(storage, consent, mode, email, transactions, details)

\* the effect that loads the view of a context: the state updates it schedules
CacheLoadEffect(storage, consent, mode, email) ==
    IF mode = "anonymous" THEN loadDashboardCacheForContext(storage, consent, "anonymous", NoUser)
    ELSE IF mode = "account" /\ isLoggedIn(email)
    THEN loadDashboardCacheForContext(storage, consent, "account", email)
    ELSE EmptyCache

(***************************************************************************)
(* storage.ts                                                              *)
(***************************************************************************)
NoCategories == {}

loadOverrides(store, consent) ==
    IF ~canUsePreferencesStorage(consent) THEN <<>> ELSE store.overrides

loadCategories(store, consent, defaultCats) ==
    IF ~canUsePreferencesStorage(consent) \/ store.categories = NoCategories THEN defaultCats
    ELSE {Trim(c) : c \in store.categories} \ {EmptyString}

saveOverrides(store, consent, next) ==
    IF ~canUsePreferencesStorage(consent) THEN store ELSE [store EXCEPT !.overrides = next]

saveCategories(store, consent, next) ==
    IF ~canUsePreferencesStorage(consent) THEN store ELSE [store EXCEPT !.categories = next]

(***************************************************************************)
(* Handlers suspended at an await.  A handler keeps the values of the      *)
(* render it was called from: txs, categories and overrides below are      *)
(* those closure values (or the next values the handler computed).         *)
(***************************************************************************)
Handler(kind, phase, button, closureTxs, cats, ovr, name, trimmed, file) ==
    [kind |-> kind, phase |-> phase, button |-> button, txs |-> closureTxs,
     categories |-> cats, overrides |-> ovr, name |-> name, trimmed |-> trimmed,
     file |-> file]

NoFile == ""

\* Dashboard's categoryActionBusy: held by a button-started add/rename/delete
categoryActionBusy == \E p \in inflight : p.button

\* an import that sends the displayed rows along with the parsed ones
RequestWithPrior(p) ==
    IF p.kind = "upload" THEN p.txs \o parseStatement(p.file) ELSE StripCategory(p.txs)

\* the transactions a handler sends to the Base Categorizer
Request(p) ==
    IF p.kind = "upload" THEN parseStatement(p.file) ELSE StripCategory(p.txs)

\* what the handler does with the categorize response up to its setTxs
PassResult(p) ==
    LET categorized == categorize(Request(p), p.overrides)
        normalized ==
            [i \in 1..Len(categorized) |->
                [categorized[i] EXCEPT !.category =
                    IF p.kind \in {"rename", "delete"} /\ categoryNameMatches(@, p.name)
                    THEN p.trimmed ELSE DiningToRestaurants(@)]]
    IN  applyCategoryAliases(normalized, p.categories,
                             MergedAliases(p.txs, p.categories, p.overrides))

Ready ==
    /\ ~authLoading
    /\ pendingLoad = <<>>

\* a user action on the rendered dashboard
UserAction ==
    /\ Ready
    /\ actionsLeft > 0
    /\ actionsLeft' = actionsLeft - 1

DashboardAction ==
    /\ UserAction
    /\ canUseDashboard(entryMode, userEmail)
    /\ Cardinality(inflight) < MaxInflight

\* Dashboard renders its rows and category controls only for a non-empty view
DashboardControls ==
    /\ DashboardAction
    /\ Len(txs) > 0

isAccountMode == entryMode = "account"

\* saveOverridesByMode / saveCategoriesByMode in anonymous mode write at once
SaveLocally(nextCategories, nextOverrides) ==
    IF isAccountMode THEN localStore
    ELSE saveOverrides(saveCategories(localStore, cookieConsent, nextCategories),
                       cookieConsent, nextOverrides)

SaveTxs(transactions, details) ==
    CacheSaveEffect(sessionStorage, cookieConsent, authLoading, entryMode, userEmail,
                    transactions, details)

(***************************************************************************)
(* runUpload                                                               *)
(***************************************************************************)
RunUpload(file) ==
    /\ DashboardAction
    /\ ~\E p \in inflight : p.kind = "upload"      \* isBuildingDashboard
    /\ inflight' = inflight \cup
           {Handler("upload", "parse", FALSE, txs, categories, overrides,
                    Undefined, Undefined, file)}
    /\ loading' = TRUE
    /\ error' = FALSE
    /\ UNCHANGED <<savingsAccounts, entryMode, userEmail, authLoading, cookieConsent, categories, overrides,
                   txs, statementDetails, editingCategory, pendingLoad, sessionStorage,
                   localStore, remoteStore>>

ParseDone(p) ==
    /\ Ready
    /\ p.kind = "upload" /\ p.phase = "parse"
    /\ inflight' = (inflight \ {p}) \cup {[p EXCEPT !.phase = "categorize"]}
    /\ UNCHANGED <<savingsAccounts, entryMode, userEmail, authLoading, cookieConsent, categories, overrides,
                   txs, statementDetails, editingCategory, loading, error, pendingLoad,
                   sessionStorage, localStore, remoteStore, actionsLeft>>

\* a catch block that goes back to the persisted overrides and categories
HandlerFailRollingBack(p) ==
    /\ Ready
    /\ inflight' = inflight \ {p}
    /\ error' = TRUE
    /\ loading' = IF p.kind \in {"upload", "override", "reset"} THEN FALSE ELSE loading
    /\ overrides' = IF isAccountMode /\ isLoggedIn(userEmail)
                    THEN remoteStore[userEmail].overrides
                    ELSE loadOverrides(localStore, cookieConsent)
    /\ categories' = IF isAccountMode /\ isLoggedIn(userEmail)
                     THEN normalizeCategories(remoteStore[userEmail].categories)
                     ELSE normalizeCategories(loadCategories(localStore, cookieConsent,
                                                             defaultCategories))
    /\ UNCHANGED <<savingsAccounts, entryMode, userEmail, authLoading, cookieConsent, txs, statementDetails,
                   editingCategory, pendingLoad, sessionStorage, localStore, remoteStore,
                   actionsLeft>>

\* a catch block that also drops the displayed view
HandlerFailClearingView(p) ==
    /\ Ready
    /\ inflight' = inflight \ {p}
    /\ error' = TRUE
    /\ loading' = IF p.kind \in {"upload", "override", "reset"} THEN FALSE ELSE loading
    /\ txs' = <<>>
    /\ statementDetails' = Null
    /\ sessionStorage' = SaveTxs(txs', statementDetails')
    /\ UNCHANGED <<savingsAccounts, entryMode, userEmail, authLoading, cookieConsent, categories, overrides,
                   editingCategory, pendingLoad, localStore, remoteStore, actionsLeft>>

\* the awaited call rejects: catch and finally of the handler
HandlerFail(p) ==
    /\ Ready
    /\ inflight' = inflight \ {p}
    /\ error' = TRUE
    /\ loading' = IF p.kind \in {"upload", "override", "reset"} THEN FALSE ELSE loading
    /\ UNCHANGED <<savingsAccounts, entryMode, userEmail, authLoading, cookieConsent, categories, overrides,
                   txs, statementDetails, editingCategory, pendingLoad, sessionStorage,
                   localStore, remoteStore, actionsLeft>>

\* the categorize response arrives: the rest of the handler
CategorizeDone(p) ==
    /\ Ready
    /\ p.phase = "categorize"
    /\ inflight' = inflight \ {p}
    /\ txs' = PassResult(p)
    /\ statementDetails' = IF p.kind = "upload" THEN <<p.file>> ELSE statementDetails
    /\ loading' = IF p.kind \in {"upload", "override", "reset"} THEN FALSE ELSE loading
    /\ sessionStorage' = SaveTxs(txs', statementDetails')
    /\ UNCHANGED <<savingsAccounts, entryMode, userEmail, authLoading, cookieConsent, categories, overrides,
                   editingCategory, error, pendingLoad, localStore, remoteStore,
                   actionsLeft>>

(***************************************************************************)
(* onReloadView, behind the reload button of onResetDashboardView          *)
(***************************************************************************)
OnReloadView ==
    /\ DashboardAction
    /\ Len(txs) > 0 /\ ~loading                    \* canReloadView
    /\ ~\E p \in inflight : p.kind = "reload"      \* isReloadingView
    /\ inflight' = inflight \cup
           {Handler("reload", "categorize", FALSE, txs, categories, overrides,
                    Undefined, Undefined, NoFile)}
    /\ error' = FALSE
    /\ UNCHANGED <<savingsAccounts, entryMode, userEmail, authLoading, cookieConsent, categories, overrides,
                   txs, statementDetails, editingCategory, loading, pendingLoad,
                   sessionStorage, localStore, remoteStore>>

(***************************************************************************)
(* Saves of account mode: putMyOverrides / putMyCategories answer          *)
(***************************************************************************)
SaveDoneUnlessStale(p) ==
    /\ Ready
    /\ p.phase = "save"
    /\ isLoggedIn(userEmail)
    /\ remoteStore' =
           IF p.overrides # overrides THEN remoteStore
           ELSE [remoteStore EXCEPT ![userEmail] =
                    [overrides |-> IF p.kind \in {"override", "rename", "delete", "reset"}
                                   THEN p.overrides ELSE @.overrides,
                     categories |-> IF p.kind \in {"add", "rename", "delete", "reset"}
                                    THEN p.categories ELSE @.categories]]
    /\ inflight' = IF p.kind \in {"add", "reset"} THEN inflight \ {p}
                   ELSE (inflight \ {p}) \cup {[p EXCEPT !.phase = "categorize"]}
    /\ loading' = IF p.kind = "reset" THEN FALSE ELSE loading
    /\ UNCHANGED <<savingsAccounts, entryMode, userEmail, authLoading, cookieConsent, categories, overrides,
                   txs, statementDetails, editingCategory, error, pendingLoad,
                   sessionStorage, localStore, actionsLeft>>

SaveDone(p) ==
    /\ Ready
    /\ p.phase = "save"
    /\ isLoggedIn(userEmail)
    /\ remoteStore' =
           [remoteStore EXCEPT ![userEmail] =
               [overrides |-> IF p.kind \in {"override", "rename", "delete", "reset"}
                              THEN p.overrides ELSE @.overrides,
                categories |-> IF p.kind \in {"add", "rename", "delete", "reset"}
                               THEN p.categories ELSE @.categories]]
    /\ inflight' = IF p.kind \in {"add", "reset"} THEN inflight \ {p}
                   ELSE (inflight \ {p}) \cup {[p EXCEPT !.phase = "categorize"]}
    /\ loading' = IF p.kind = "reset" THEN FALSE ELSE loading
    /\ UNCHANGED <<savingsAccounts, entryMode, userEmail, authLoading, cookieConsent, categories, overrides,
                   txs, statementDetails, editingCategory, error, pendingLoad,
                   sessionStorage, localStore, actionsLeft>>

\* the first await of a saving handler: the PUT of account mode, or the
\* categorize call when the save was a local write
FirstAwait == IF isAccountMode THEN "save" ELSE "categorize"

(***************************************************************************)
(* onOverrideMerchant: the category select of a transaction row            *)
(***************************************************************************)
OnOverrideMerchant(merchant, type, category) ==
    LET next == ObjPut(overrides, makeOverrideKey(merchant, type), category)
    IN  /\ DashboardControls
        /\ overrides' = next
        /\ loading' = TRUE
        /\ error' = FALSE
        /\ localStore' = SaveLocally(localStore.categories, next)
        /\ inflight' = inflight \cup
               {Handler("override", FirstAwait, FALSE, txs, categories, next,
                        Undefined, Undefined, NoFile)}
        /\ UNCHANGED <<savingsAccounts, entryMode, userEmail, authLoading, cookieConsent, categories, txs,
                       statementDetails, editingCategory, pendingLoad, sessionStorage,
                       remoteStore>>

(***************************************************************************)
(* handleAddCategory; newCategory is the text of the input field           *)
(***************************************************************************)
HandleAddCategory(newCategory) ==
    LET c == Trim(newCategory)
        normalized == DiningToRestaurants(c)
        next == categories \cup {normalized}
    IN  /\ DashboardControls
        /\ ~categoryActionBusy
        /\ IF c = EmptyString
           THEN UNCHANGED <<categories, localStore, inflight>>
           ELSE /\ categories' = next
                /\ localStore' = SaveLocally(next, localStore.overrides)
                /\ inflight' = IF isAccountMode
                               THEN inflight \cup
                                    {Handler("add", "save", TRUE, txs, next, overrides,
                                             Undefined, Undefined, NoFile)}
                               ELSE inflight
        /\ UNCHANGED <<savingsAccounts, entryMode, userEmail, authLoading, cookieConsent, overrides, txs,
                       statementDetails, editingCategory, loading, error, pendingLoad,
                       sessionStorage, remoteStore>>

(***************************************************************************)
(* Category rename                                                         *)
(***************************************************************************)
StartRenameAnyCategory(name) ==
    /\ UserAction
    /\ canUseDashboard(entryMode, userEmail) /\ Len(txs) > 0
    /\ editingCategory' = name
    /\ UNCHANGED <<savingsAccounts, entryMode, userEmail, authLoading, cookieConsent, categories, overrides,
                   txs, statementDetails, loading, error, inflight, pendingLoad,
                   sessionStorage, localStore, remoteStore>>

StartRenameCategory(name) ==
    /\ UserAction
    /\ canUseDashboard(entryMode, userEmail) /\ Len(txs) > 0
    /\ editingCategory' = IF name = Other THEN editingCategory ELSE name
    /\ UNCHANGED <<savingsAccounts, entryMode, userEmail, authLoading, cookieConsent, categories, overrides,
                   txs, statementDetails, loading, error, inflight, pendingLoad,
                   sessionStorage, localStore, remoteStore>>

CancelRenameCategory ==
    /\ UserAction
    /\ canUseDashboard(entryMode, userEmail) /\ Len(txs) > 0
    /\ editingCategory # Undefined
    /\ editingCategory' = Undefined
    /\ UNCHANGED <<savingsAccounts, entryMode, userEmail, authLoading, cookieConsent, categories, overrides,
                   txs, statementDetails, loading, error, inflight, pendingLoad,
                   sessionStorage, localStore, remoteStore>>

\* values of an override map rewritten: v matching name becomes target
RewriteValues(ovr, name, target) ==
    [i \in 1..Len(ovr) |->
        <<ovr[i][1], IF categoryNameMatches(ovr[i][2], name) THEN target ELSE ovr[i][2]>>]

\* prev.map(t => categoryNameMatches(t.category, name) ? {...t, category: target} : t)
RewriteTxs(transactions, name, target) ==
    [i \in 1..Len(transactions) |->
        IF categoryNameMatches(transactions[i].category, name)
        THEN [transactions[i] EXCEPT !.category = target] ELSE transactions[i]]

RenameCategories(cats, oldName, trimmed) ==
    {IF categoryNameMatches(c, oldName) THEN trimmed ELSE c : c \in cats}

RenameOverrides(ovr, oldName, trimmed) ==
    ObjPut(RewriteValues(ovr, oldName, trimmed), makeCategoryAliasKey(oldName), trimmed)

ApplyRenameCategoryUnlessEmpty(editingValue, button) ==
    LET trimmed == DiningToRestaurants(Trim(editingValue))
        oldName == editingCategory
        nextCategories == RenameCategories(categories, oldName, trimmed)
        nextOverrides == RenameOverrides(overrides, oldName, trimmed)
    IN  /\ DashboardControls
        /\ button => ~categoryActionBusy
        /\ editingCategory # Undefined
        /\ editingCategory' = Undefined
        /\ IF trimmed = EmptyString
           THEN UNCHANGED <<categories, overrides, txs, inflight, sessionStorage, localStore>>
           ELSE /\ categories' = nextCategories
                /\ overrides' = nextOverrides
                /\ txs' = RewriteTxs(txs, oldName, trimmed)
                /\ sessionStorage' = SaveTxs(txs', statementDetails)
                /\ localStore' = SaveLocally(nextCategories, nextOverrides)
                /\ inflight' = inflight \cup
                       {Handler("rename", FirstAwait, button, txs, nextCategories,
                                nextOverrides, oldName, trimmed, NoFile)}
        /\ UNCHANGED <<savingsAccounts, entryMode, userEmail, authLoading, cookieConsent, statementDetails,
                       loading, error, pendingLoad, remoteStore>>

\* applyRenameCategory; editingValue is the text of the rename field, button
\* tells the Save button from the Enter key
ApplyRenameCategory(editingValue, button) ==
    LET trimmed == DiningToRestaurants(Trim(editingValue))
        oldName == editingCategory
        nextCategories == RenameCategories(categories, oldName, trimmed)
        nextOverrides == RenameOverrides(overrides, oldName, trimmed)
    IN  /\ DashboardControls
        /\ button => ~categoryActionBusy
        /\ editingCategory # Undefined
        /\ editingCategory' = Undefined
        /\ IF trimmed = EmptyString \/ trimmed = editingCategory
           THEN UNCHANGED <<categories, overrides, txs, inflight, sessionStorage, localStore>>
           ELSE /\ categories' = nextCategories
                /\ overrides' = nextOverrides
                /\ txs' = RewriteTxs(txs, oldName, trimmed)
                /\ sessionStorage' = SaveTxs(txs', statementDetails)
                /\ localStore' = SaveLocally(nextCategories, nextOverrides)
                /\ inflight' = inflight \cup
                       {Handler("rename", FirstAwait, button, txs, nextCategories,
                                nextOverrides, oldName, trimmed, NoFile)}
        /\ UNCHANGED <<savingsAccounts, entryMode, userEmail, authLoading, cookieConsent, statementDetails,
                       loading, error, pendingLoad, remoteStore>>

(***************************************************************************)
(* handleDeleteCategory                                                    *)
(***************************************************************************)
DeleteCategories(cats, name) ==
    {c \in cats : ~categoryNameMatches(c, name)} \cup {Other}

RECURSIVE DropAliasesOf(_, _)
DropAliasesOf(ovr, name) ==
    IF ovr = <<>> THEN <<>>
    ELSE LET key == Head(ovr)[1]
         IN  IF key[1] = CATEGORY_ALIAS_MERCHANT /\ categoryNameMatches(KeyOldName(key), name)
             THEN DropAliasesOf(Tail(ovr), name)
             ELSE <<Head(ovr)>> \o DropAliasesOf(Tail(ovr), name)

\* the delete that also drops the aliases whose target is the deleted name
DeleteOverridesAndTargets(ovr, name) ==
    LET kept == SelectSeq(ovr, LAMBDA e : ~(e[1][1] = CATEGORY_ALIAS_MERCHANT
                                             /\ categoryNameMatches(e[2], name)))
    IN  DropAliasesOf(RewriteValues(kept, name, Other), name)

DeleteOverrides(ovr, name) == DropAliasesOf(RewriteValues(ovr, name, Other), name)

HandleDeleteCategory(name) ==
    LET nextCategories == DeleteCategories(categories, name)
        nextOverrides == DeleteOverrides(overrides, name)
    IN  /\ DashboardControls
        /\ ~categoryActionBusy
        /\ IF name = Other
           THEN UNCHANGED <<categories, overrides, txs, editingCategory, inflight,
                            sessionStorage, localStore>>
           ELSE /\ categories' = nextCategories
                /\ overrides' = nextOverrides
                /\ txs' = RewriteTxs(txs, name, Other)
                /\ editingCategory' = IF categoryNameMatches(editingCategory, name)
                                      THEN Undefined ELSE editingCategory
                /\ sessionStorage' = SaveTxs(txs', statementDetails)
                /\ localStore' = SaveLocally(nextCategories, nextOverrides)
                /\ inflight' = inflight \cup
                       {Handler("delete", FirstAwait, TRUE, txs, nextCategories,
                                nextOverrides, name, Other, NoFile)}
        /\ UNCHANGED <<savingsAccounts, entryMode, userEmail, authLoading, cookieConsent, statementDetails,
                       loading, error, pendingLoad, remoteStore>>

(***************************************************************************)
(* Identity context: bootstrap, mode selection, navigation, sign-in and    *)
(* sign-out.  A change of (authLoading, entryMode, isLoggedIn, userEmail)  *)
(* commits a render whose effects run with that render's values: the load  *)
(* effect schedules the cached view, the save effect writes the view the   *)
(* render still holds.  CommitLoad is the render of the scheduled updates. *)
(***************************************************************************)
Users == {UserA, UserB}

loadAnonymousConfig ==
    /\ overrides' = loadOverrides(localStore, cookieConsent)
    /\ categories' = normalizeCategories(loadCategories(localStore, cookieConsent,
                                                        defaultCategories))

loadUserConfig(user) ==
    /\ overrides' = remoteStore[user].overrides
    /\ categories' = normalizeCategories(remoteStore[user].categories)

\* effects of the render committed after a handler changed the context;
\* storage, transactions and details are what the handler left
ContextEffects(authL, mode, email, storage, transactions, details) ==
    IF <<authL, mode, email>> = <<authLoading, entryMode, userEmail>>
    THEN /\ pendingLoad' = pendingLoad
         /\ sessionStorage' =
                IF <<transactions, details>> = <<txs, statementDetails>> THEN storage
                ELSE CacheSaveEffect(storage, cookieConsent, authL, mode, email,
                                     transactions, details)
    ELSE /\ pendingLoad' = <<CacheLoadEffect(storage, cookieConsent, mode, email)>>
         /\ sessionStorage' = CacheSaveEffect(storage, cookieConsent, authL, mode, email,
                                              transactions, details)

\* Dashboard unmounts with the dashboard section: categoryActionBusy is lost
DashboardMount(mode, email) ==
    inflight' = IF canUseDashboard(mode, email) THEN inflight
                ELSE {[p EXCEPT !.button = FALSE] : p \in inflight}

\* the authMe effect of the first render settles; session: the signed-in
\* account of the session cookie or NoUser
Bootstrap(session) ==
    /\ authLoading
    /\ authLoading' = FALSE
    /\ userEmail' = session
    /\ IF isLoggedIn(session) THEN loadUserConfig(session) ELSE loadAnonymousConfig
    /\ ContextEffects(FALSE, entryMode, session, sessionStorage, txs, statementDetails)
    /\ UNCHANGED <<savingsAccounts, entryMode, cookieConsent, txs, statementDetails, editingCategory,
                   loading, error, inflight, localStore, remoteStore, actionsLeft>>

CommitLoad ==
    /\ pendingLoad # <<>>
    /\ txs' = pendingLoad[1].txs
    /\ statementDetails' = pendingLoad[1].statementDetails
    /\ pendingLoad' = <<>>
    /\ sessionStorage' = SaveTxs(txs', statementDetails')
    /\ UNCHANGED <<savingsAccounts, entryMode, userEmail, authLoading, cookieConsent, categories, overrides,
                   editingCategory, loading, error, inflight, localStore, remoteStore,
                   actionsLeft>>

\* onSelectMode, from the landing page
OnSelectMode(mode) ==
    /\ UserAction
    /\ entryMode = "landing"
    /\ entryMode' = mode
    /\ error' = FALSE
    /\ IF mode = "anonymous" THEN loadAnonymousConfig
       ELSE IF isLoggedIn(userEmail) THEN loadUserConfig(userEmail)
       ELSE UNCHANGED <<categories, overrides>>
    /\ DashboardMount(mode, userEmail)
    /\ ContextEffects(authLoading, mode, userEmail, sessionStorage, txs, statementDetails)
    /\ UNCHANGED <<savingsAccounts, userEmail, authLoading, cookieConsent, txs, statementDetails,
                   editingCategory, loading, localStore, remoteStore>>

\* the breadcrumb button (landing) and the popstate listener (any mode)
SetEntryMode(mode) ==
    /\ UserAction
    /\ entryMode # mode
    /\ entryMode' = mode
    /\ DashboardMount(mode, userEmail)
    /\ ContextEffects(authLoading, mode, userEmail, sessionStorage, txs, statementDetails)
    /\ UNCHANGED <<savingsAccounts, userEmail, authLoading, cookieConsent, categories, overrides, txs,
                   statementDetails, editingCategory, loading, error, localStore,
                   remoteStore>>

\* handleAuthAction('login') of the account page, authLogin answered for user
HandleAuthAction(user) ==
    /\ UserAction
    /\ entryMode = "account" /\ ~isLoggedIn(userEmail)
    /\ ~loading
    /\ userEmail' = user
    /\ error' = FALSE
    /\ loadUserConfig(user)
    /\ DashboardMount(entryMode, user)
    /\ ContextEffects(authLoading, entryMode, user, sessionStorage, txs, statementDetails)
    /\ UNCHANGED <<savingsAccounts, entryMode, authLoading, cookieConsent, txs, statementDetails,
                   editingCategory, loading, localStore, remoteStore>>

OnLogout ==
    /\ UserAction
    /\ entryMode # "landing" /\ isLoggedIn(userEmail)
    /\ ~loading
    /\ userEmail' = NoUser
    /\ txs' = <<>>
    /\ statementDetails' = Null
    /\ IF entryMode = "anonymous" THEN loadAnonymousConfig
       ELSE UNCHANGED <<categories, overrides>>
    /\ DashboardMount(entryMode, NoUser)
    /\ ContextEffects(authLoading, entryMode, NoUser,
                      clearDashboardCacheForContext(sessionStorage, cookieConsent,
                                                    "account", userEmail),
                      <<>>, Null)
    /\ UNCHANGED <<savingsAccounts, entryMode, authLoading, cookieConsent, editingCategory, loading, error,
                   localStore, remoteStore>>

(***************************************************************************)
(* Initial states: the first render, before the authMe effect settles      *)
(***************************************************************************)
Store(ovr, cats) == [overrides |-> ovr, categories |-> cats]

FreshStore == Store(<<>>, NoCategories)

\* 'Old' renamed to 'Shopping', merchant A of type B assigned to 'Shopping'
ShoppingStore ==
    Store(<<<<makeOverrideKey(MerchantA, TitleB), Shopping>>,
            <<makeCategoryAliasKey(Old), Shopping>>>>,
          defaultCategories)

\* 'Groceries' renamed to 'Food', 'Groceries' added again, Shop/POS assigned to it
GroceriesStore ==
    Store(<<<<makeCategoryAliasKey(Groceries), Food>>,
            <<makeOverrideKey(MerchantShop, TitlePOS), Groceries>>>>,
          {Food, Groceries, Shopping, Fees, Other})

\* 'groceries' renamed to 'Misc', 'Groceries' added and renamed to 'Food',
\* 'other' added
LowerCaseStore ==
    Store(<<<<makeCategoryAliasKey(groceriesLower), Misc>>,
            <<makeCategoryAliasKey(Groceries), Food>>>>,
          {Misc, Food, Shopping, otherLower, Other})

\* 'Fees' deleted
FeesDeletedStore == Store(<<>>, defaultCategories \ {Fees})

StoredProfiles == {FreshStore, ShoppingStore, GroceriesStore, LowerCaseStore}

\* what the accounts have saved before
RemoteProfiles == (UserA :> FeesDeletedStore) @@ (UserB :> FreshStore)

AllConsent == [preferences |-> TRUE, performance |-> TRUE]

NoStorage == [k \in {} |-> Unparseable]

\* the view a store's owner got from importing a statement
ViewOf(store, file) ==
    PassResult(Handler("upload", "categorize", FALSE, <<>>,
                       normalizeCategories(loadCategories(store, AllConsent,
                                                          defaultCategories)),
                       store.overrides, Undefined, Undefined, file))

\* session storage of a tab that imported statement1.pdf in anonymous mode
\* and statement2.pdf as account UserA before the page was loaded again
UsedStorage(local, remote) ==
    saveDashboardCacheForContext(
        saveDashboardCacheForContext(NoStorage, AllConsent, "anonymous", NoUser,
                                     ViewOf(local, "statement1.pdf"),
                                     <<"statement1.pdf">>),
        AllConsent, "account", UserA,
        ViewOf(remote[UserA], "statement2.pdf"), <<"statement2.pdf">>)

InitWith(modes, profiles, remote, budget) ==
    /\ entryMode \in modes
    /\ userEmail = NoUser
    /\ authLoading = TRUE
    /\ cookieConsent = AllConsent
    /\ localStore \in profiles
    /\ remoteStore = remote
    /\ categories = normalizeCategories(loadCategories(localStore, cookieConsent,
                                                       defaultCategories))
    /\ overrides = loadOverrides(localStore, cookieConsent)
    /\ txs = <<>>
    /\ statementDetails = Null
    /\ editingCategory = Undefined
    /\ loading = FALSE
    /\ error = FALSE
    /\ inflight = {}
    /\ pendingLoad = <<>>
    /\ sessionStorage \in {NoStorage, UsedStorage(localStore, remoteStore)}
    /\ actionsLeft = budget
    /\ savingsAccounts = <<>>

(***************************************************************************)
(* Category editing in one identity context                                *)
(***************************************************************************)
\* what the user types or picks in the category controls
AddInputs == {otherLower, Groceries}
RenameInputs == {FoodPadded, Misc}
PickedNames == {Groceries, Restaurants, Shopping, Fees, TaxesFees, Other, Food, Misc, otherLower}

Init == InitWith({"anonymous", "account"}, StoredProfiles, RemoteProfiles, MaxActions)

Next ==
    \/ \E session \in {NoUser, UserA} : Bootstrap(session)
    \/ CommitLoad
    \/ \E file \in Files : RunUpload(file)
    \/ OnReloadView
    \/ \E i \in 1..Len(txs), c \in categories \cap PickedNames :
           OnOverrideMerchant(txs[i].merchant, txs[i].title, c)
    \/ \E c \in AddInputs : HandleAddCategory(c)
    \/ \E name \in categories \cap PickedNames : StartRenameCategory(name)
    \/ \E v \in RenameInputs, button \in BOOLEAN : ApplyRenameCategory(v, button)
    \/ CancelRenameCategory
    \/ \E name \in categories \cap PickedNames : HandleDeleteCategory(name)
    \/ \E p \in inflight : ParseDone(p)
    \/ \E p \in inflight : SaveDone(p)
    \/ \E p \in inflight : CategorizeDone(p)
    \/ \E p \in inflight : HandlerFail(p)

Spec == Init /\ [][Next]_vars

(***************************************************************************)
(* Properties of category editing and of the categorization passes         *)
(***************************************************************************)
AllInCategorySet(transactions, cats) ==
    \A i \in 1..Len(transactions) : transactions[i].category \in cats

\* C1: the Category Set contains the fallback name 'Other' in every state
\* reachable by add, rename and delete.
C1_OtherAlwaysPresent == Other \in categories

\* C2: when an Orchestrator pass completes, every transaction's category is
\* a member of the Category Set of that moment.
C2_CategoriesInSetAfterPass ==
    [][\A p \in inflight :
          CategorizeDone(p) => AllInCategorySet(txs', categories')]_vars

\* C3: when a pass run with the current override map and Category Set
\* completes, a transaction whose Merchant+Type key is assigned to a category
\* of the Category Set has that category.
C3_OverrideTargetKept ==
    [][\A p \in inflight :
          (CategorizeDone(p) /\ p.overrides = overrides /\ p.categories = categories)
          => \A i \in 1..Len(txs') :
                LET key == makeOverrideKey(txs'[i].merchant, txs'[i].title)
                IN  (ObjHas(overrides, key) /\ ObjGet(overrides, key) \in categories)
                    => txs'[i].category = ObjGet(overrides, key)]_vars

Merchants(transactions) == {transactions[i].merchant : i \in 1..Len(transactions)}

\* C4: a categorize response requested for the view of one statement never
\* replaces the view of another statement imported since.
C4_NoStaleOverwriteOfImport ==
    [][\A p \in inflight :
          (CategorizeDone(p) /\ p.kind # "upload"
             /\ statementDetails # Null /\ Merchants(txs) # Merchants(p.txs))
          => txs' = txs]_vars

\* C5: when onReloadView completes with the override map, Category Set and
\* transactions it started from unchanged, a second onReloadView from the
\* result yields the same categories.
C5_ReloadIdempotent ==
    [][\A p \in inflight :
          (CategorizeDone(p) /\ p.kind = "reload" /\ p.overrides = overrides
             /\ p.categories = categories /\ p.txs = txs)
          => PassResult([p EXCEPT !.txs = txs']) = txs']_vars

(***************************************************************************)
(* applyCategoryAliases as a function: a category, a Category Set and an   *)
(* alias map are drawn, the function is applied to them.                   *)
(***************************************************************************)
\* applications of the function explored from each input
MaxApplications == 2

AliasOldNames == {Old, Shopping, Misc}
AliasTargets == {Shopping, Misc, Other}
AliasInputs == {Old, Shopping, Misc, Other, Dining}

AliasEntries == {<<makeCategoryAliasKey(from), to>> : from \in AliasOldNames, to \in AliasTargets}

AliasMaps ==
    {<<>>} \cup {<<e>> : e \in AliasEntries}
           \cup {m \in AliasEntries \X AliasEntries : m[1][1] # m[2][1]}

InitAlias ==
    /\ entryMode = "anonymous"
    /\ userEmail = NoUser
    /\ authLoading = FALSE
    /\ cookieConsent = AllConsent
    /\ localStore = FreshStore
    /\ remoteStore = RemoteProfiles
    /\ categories \in {s \cup {Other} : s \in SUBSET {Shopping, Misc}}
    /\ overrides \in AliasMaps
    /\ \E c \in AliasInputs : txs = <<[Tx(MerchantA, TitleB, c) EXCEPT !.category = c]>>
    /\ statementDetails = Null
    /\ editingCategory = Undefined
    /\ loading = FALSE
    /\ error = FALSE
    /\ inflight = {}
    /\ pendingLoad = <<>>
    /\ sessionStorage = NoStorage
    /\ actionsLeft = MaxApplications
    /\ savingsAccounts = <<>>

ApplyCategoryAliases ==
    /\ actionsLeft > 0
    /\ actionsLeft' = actionsLeft - 1
    /\ txs' = applyCategoryAliases(txs, categories, extractCategoryAliases(overrides))
    /\ UNCHANGED <<savingsAccounts, entryMode, userEmail, authLoading, cookieConsent, categories, overrides,
                   statementDetails, editingCategory, loading, error, inflight,
                   pendingLoad, sessionStorage, localStore, remoteStore>>

NextAlias == ApplyCategoryAliases

SpecAlias == InitAlias /\ [][NextAlias]_vars

\* C6: applyCategoryAliases applied to its own result, with the same
\* Category Set and alias map, returns that result unchanged.
C6_AliasApplicationIdempotent ==
    [][ApplyCategoryAliases =>
          applyCategoryAliases(txs', categories, extractCategoryAliases(overrides)) = txs']_vars

(***************************************************************************)
(* Deleting 'Shopping' from the override map of ShoppingStore              *)
(***************************************************************************)
InitDelete == InitWith({"anonymous", "account"}, {ShoppingStore}, RemoteProfiles, MaxActions)

SpecDelete == InitDelete /\ [][Next]_vars

OldAliasKey == makeCategoryAliasKey(Old)
ABKey == makeOverrideKey(MerchantA, TitleB)

ShoppingRewritten(before, after) ==
    /\ Len(after) = Len(before)
    /\ \A i \in 1..Len(before) :
          before[i].category = Shopping => after[i].category = Other

\* C7 as stated: deleting 'Shopping' from {A||B: Shopping, alias Old: Shopping}
\* rewrites the value of A||B to 'Other', removes the alias entry and turns
\* every 'Shopping' transaction into 'Other'.
C7_DeleteRemovesAlias ==
    [][(overrides = ShoppingStore.overrides /\ HandleDeleteCategory(Shopping))
       => /\ ObjHas(overrides', ABKey) /\ ObjGet(overrides', ABKey) = Other
          /\ ~ObjHas(overrides', OldAliasKey)
          /\ ShoppingRewritten(txs, txs')]_vars

\* C7 amended: deleting 'Shopping' from {A||B: Shopping, alias Old: Shopping}
\* rewrites the value of A||B to 'Other', keeps the alias entry of 'Old' with
\* its target rewritten to 'Other', and turns every 'Shopping' transaction
\* into 'Other'.
C7_DeleteRewritesAliasTarget ==
    [][(overrides = ShoppingStore.overrides /\ HandleDeleteCategory(Shopping))
       => /\ overrides' = <<<<ABKey, Other>>, <<OldAliasKey, Other>>>>
          /\ ShoppingRewritten(txs, txs')]_vars

\* the delete handler of 'Shopping' has just rewritten map and transactions
C7_ShoppingDeleted ==
    /\ overrides = <<<<ABKey, Other>>, <<OldAliasKey, Other>>>>
    /\ Shopping \notin categories
    /\ \E p \in inflight :
          /\ p.kind = "delete" /\ p.name = Shopping
          /\ Len(p.txs) = Len(txs)
          /\ \E i \in 1..Len(txs) : p.txs[i].category = Shopping /\ txs[i].category = Other

(***************************************************************************)
(* Rename followed by an import                                            *)
(***************************************************************************)
RenamePostcondition ==
    \A v \in RenameInputs, button \in BOOLEAN :
        LET O == editingCategory
            N == DiningToRestaurants(Trim(v))
        IN  (ApplyRenameCategory(v, button) /\ N # EmptyString /\ N # O)
            => /\ \A i \in 1..Len(txs) : txs[i].category = O => txs'[i].category = N
               /\ ObjHas(overrides', makeCategoryAliasKey(O))
               /\ ObjGet(overrides', makeCategoryAliasKey(O)) = N

ImportFollowsAliases ==
    \A p \in inflight :
        (CategorizeDone(p) /\ p.kind = "upload" /\ p.overrides = overrides
           /\ p.categories = categories)
        => \A i \in 1..Len(txs'), k \in 1..Len(overrides) :
              LET key == overrides[k][1]
                  N == overrides[k][2]
              IN  (key[1] = CATEGORY_ALIAS_MERCHANT /\ N \in categories
                     /\ categorize(Request(p), p.overrides)[i].category = KeyOldName(key))
                  => txs'[i].category = N

\* C8: a rename of O to N turns the transactions of O into N and records the
\* alias O -> N; an import run with a map that holds the alias O -> N, N in
\* the Category Set, ends with N for a transaction categorized O.
C8_RenameThenImport == [][RenamePostcondition /\ ImportFollowsAliases]_vars

(***************************************************************************)
(* The dashboard cache across identity contexts.  Each context imports its *)
(* own statement, so the owner of a cached view can be read from it.       *)
(***************************************************************************)
ContextFile(mode) == IF mode = "anonymous" THEN "statement1.pdf" ELSE "statement2.pdf"

InitCache == InitWith({"landing", "anonymous", "account"}, {FreshStore}, RemoteProfiles,
                      MaxActions)

NextCache ==
    \/ \E session \in {NoUser, UserA} : Bootstrap(session)
    \/ CommitLoad
    \/ \E mode \in {"anonymous", "account"} : OnSelectMode(mode)
    \/ \E mode \in {"landing", "anonymous", "account"} : SetEntryMode(mode)
    \/ HandleAuthAction(UserA)
    \/ OnLogout
    \/ RunUpload(ContextFile(entryMode))
    \/ OnReloadView
    \/ \E i \in 1..Len(txs), c \in {Other} : OnOverrideMerchant(txs[i].merchant, txs[i].title, c)
    \/ \E p \in inflight : ParseDone(p)
    \/ \E p \in inflight : SaveDone(p)
    \/ \E p \in inflight : CategorizeDone(p)
    \/ \E p \in inflight : HandlerFail(p)

SpecCache == InitCache /\ [][NextCache]_vars

KeyMode(key) == IF Len(key) = 2 THEN "anonymous" ELSE "account"

\* C9: a dashboard cache entry never holds transactions of a statement that
\* was imported under another identity context than the one of its key.
C9_CacheEntriesStayInContext ==
    \A key \in DOMAIN sessionStorage :
        (key[1] = DASHBOARD_CACHE_PREFIX /\ sessionStorage[key].tag = "array")
        => Merchants(sessionStorage[key].v)
               \subseteq Merchants(parseStatement(ContextFile(KeyMode(key))))

(***************************************************************************)
(* loadDashboardCacheForContext as a function of the storage content       *)
(***************************************************************************)
VersionedView == [txs |-> ViewOf(FreshStore, "statement2.pdf"),
                  statementDetails |-> <<"statement2.pdf">>]
LegacyView == [txs |-> ViewOf(FreshStore, "statement1.pdf"),
               statementDetails |-> <<"statement1.pdf">>]

\* the items a key can hold; <<>> stands for no item
TxItems(view) == {<<>>, <<JsonArray(view.txs)>>, <<JsonArray(<<>>)>>, <<JsonNumber>>,
                  <<Unparseable>>}
DetailsItems(view) == {<<>>, <<JsonObject(view.statementDetails)>>, <<Unparseable>>}

WithItem(storage, key, item) ==
    IF item = <<>> THEN storage ELSE StorageSet(storage, key, item[1])

StorageContents ==
    {WithItem(WithItem(WithItem(WithItem(NoStorage,
        getDashboardCacheKey("account", UserB), a),
        getStatementDetailsCacheKey("account", UserB), b),
        LEGACY_DASHBOARD_CACHE_KEY, c),
        LEGACY_STATEMENT_DETAILS_CACHE_KEY, d) :
     a \in TxItems(VersionedView), b \in DetailsItems(VersionedView),
     c \in TxItems(LegacyView), d \in DetailsItems(LegacyView)}

InitLoad ==
    /\ entryMode \in {"anonymous", "account"}
    /\ userEmail \in Users
    /\ authLoading = FALSE
    /\ cookieConsent \in {AllConsent, [preferences |-> TRUE, performance |-> FALSE]}
    /\ localStore = FreshStore
    /\ remoteStore = RemoteProfiles
    /\ categories = defaultCategories
    /\ overrides = <<>>
    /\ txs = <<>>
    /\ statementDetails = Null
    /\ editingCategory = Undefined
    /\ loading = FALSE
    /\ error = FALSE
    /\ inflight = {}
    /\ pendingLoad = <<>>
    /\ sessionStorage \in StorageContents
    /\ actionsLeft = 0
    /\ savingsAccounts = <<>>

\* one call of the function; its result is kept in pendingLoad
LoadDashboardCache ==
    /\ pendingLoad = <<>>
    /\ pendingLoad' = <<loadDashboardCacheForContext(sessionStorage, cookieConsent,
                                                     entryMode, userEmail)>>
    /\ UNCHANGED <<savingsAccounts, entryMode, userEmail, authLoading, cookieConsent, categories, overrides,
                   txs, statementDetails, editingCategory, loading, error, inflight,
                   sessionStorage, localStore, remoteStore, actionsLeft>>

NextLoad == LoadDashboardCache

SpecLoad == InitLoad /\ [][NextLoad]_vars

\* C10: in account mode the load returns the versioned entry of the account
\* or the empty result, whatever the legacy keys hold.
C10_AccountLoadIgnoresLegacy ==
    (pendingLoad # <<>> /\ entryMode = "account")
    => LET result == pendingLoad[1]
           txKey == getDashboardCacheKey("account", userEmail)
           detailsKey == getStatementDetailsCacheKey("account", userEmail)
       IN  \/ result = EmptyCache
           \/ /\ txKey \in DOMAIN sessionStorage
              /\ sessionStorage[txKey].tag = "array"
              /\ result.txs = sessionStorage[txKey].v
              /\ \/ result.statementDetails = Null
                 \/ /\ detailsKey \in DOMAIN sessionStorage
                    /\ result.statementDetails = sessionStorage[detailsKey].v

\* an account-mode load from a storage whose legacy keys hold a view and whose
\* versioned key holds none
C10_LegacyViewNotLoaded ==
    /\ pendingLoad = <<EmptyCache>>
    /\ entryMode = "account"
    /\ canUsePerformanceStorage(cookieConsent)
    /\ getDashboardCacheKey("account", userEmail) \notin DOMAIN sessionStorage
    /\ LEGACY_DASHBOARD_CACHE_KEY \in DOMAIN sessionStorage
    /\ sessionStorage[LEGACY_DASHBOARD_CACHE_KEY] = JsonArray(LegacyView.txs)

(***************************************************************************)
(* Sign-out and sign-in of one account on the account page                 *)
(***************************************************************************)
\* user actions explored in a sign-out / sign-in session
MaxSessionActions == 3

InitLogout == InitWith({"account"}, {FreshStore}, RemoteProfiles, MaxSessionActions)

NextLogout ==
    \/ \E session \in {NoUser, UserA} : Bootstrap(session)
    \/ CommitLoad
    \/ HandleAuthAction(UserA)
    \/ OnLogout
    \/ RunUpload("statement2.pdf")
    \/ OnReloadView
    \/ \E p \in inflight : ParseDone(p)
    \/ \E p \in inflight : CategorizeDone(p)
    \/ \E p \in inflight : HandlerFail(p)

SpecLogout == InitLogout /\ [][NextLogout]_vars

NoEntryFor(email, storage) ==
    /\ getDashboardCacheKey("account", email) \notin DOMAIN storage
    /\ getStatementDetailsCacheKey("account", email) \notin DOMAIN storage

HoldsNothing(email, storage) ==
    /\ \/ getDashboardCacheKey("account", email) \notin DOMAIN storage
       \/ storage[getDashboardCacheKey("account", email)] = JsonArray(<<>>)
    /\ getStatementDetailsCacheKey("account", email) \notin DOMAIN storage

\* C11: a sign-out leaves no cache entry for the account, and a categorize
\* response for a view from before the sign-out never puts transactions into
\* the account's emptied entry.
C11_SignOutClearsCache ==
    [][/\ (OnLogout /\ isLoggedIn(userEmail)) => NoEntryFor(userEmail, sessionStorage')
       /\ \A p \in inflight :
             (CategorizeDone(p) /\ p.kind # "upload" /\ isLoggedIn(userEmail)
                /\ HoldsNothing(userEmail, sessionStorage))
             => HoldsNothing(userEmail, sessionStorage')]_vars

(***************************************************************************)
(* Imports in anonymous mode, where an import is the only handler that     *)
(* awaits a collaborator                                                   *)
(***************************************************************************)
InitImport == InitWith({"anonymous"}, {FreshStore, ShoppingStore}, RemoteProfiles, MaxActions)

NextImport ==
    \/ Bootstrap(NoUser)
    \/ CommitLoad
    \/ \E file \in Files : RunUpload(file)
    \/ \E c \in AddInputs : HandleAddCategory(c)
    \/ \E p \in inflight : ParseDone(p)
    \/ \E p \in inflight : CategorizeDone(p)
    \/ \E p \in inflight : HandlerFail(p)

SpecImport == InitImport /\ [][NextImport]_vars

\* C12: when the parse or the categorize call of an import fails, the
\* transactions are those the import started from, statement details,
\* override map and Category Set are unchanged, and the error is set.
C12_FailedImportKeepsState ==
    [][\A p \in inflight :
          (HandlerFail(p) /\ p.kind = "upload")
          => /\ txs' = p.txs /\ txs' = txs
             /\ statementDetails' = statementDetails
             /\ overrides' = overrides
             /\ categories' = categories
             /\ error']_vars

\* an import over a displayed view has failed
C12_ImportFailed ==
    /\ error /\ ~loading
    /\ inflight = {}
    /\ txs # <<>> /\ statementDetails = <<"statement1.pdf">>
    /\ actionsLeft < MaxActions

(***************************************************************************)
(* Edits of a signed-in account: every save is a PUT that can be rejected  *)
(***************************************************************************)
InitSave == InitWith({"account"}, {FreshStore}, RemoteProfiles, MaxActions)

NextSave ==
    \/ Bootstrap(UserA)
    \/ CommitLoad
    \/ \E i \in 1..Len(txs), c \in {Shopping, Other} :
           OnOverrideMerchant(txs[i].merchant, txs[i].title, c)
    \/ \E name \in {Groceries, Other} : StartRenameCategory(name)
    \/ \E v \in RenameInputs, button \in BOOLEAN : ApplyRenameCategory(v, button)
    \/ \E name \in {Shopping, Other} : HandleDeleteCategory(name)
    \/ \E p \in inflight : SaveDone(p)
    \/ \E p \in inflight : CategorizeDone(p)
    \/ \E p \in inflight : HandlerFail(p)

SpecSave == InitSave /\ [][NextSave]_vars

\* C13: when the save of an override edit, a rename or a delete is
\* rejected, the error is set and override map and Category Set stay as the
\* edits left them.
C13_RejectedSaveKeepsEdit ==
    [][\A p \in inflight :
          (HandlerFail(p) /\ p.phase = "save")
          => /\ error'
             /\ overrides' = overrides
             /\ categories' = categories]_vars

\* an edit whose save was rejected is in memory and not in the account's store
C13_EditKeptAfterRejectedSave ==
    /\ error
    /\ inflight = {}
    /\ isAccountMode /\ isLoggedIn(userEmail)
    /\ overrides # remoteStore[userEmail].overrides

\* C14: the Category Set never contains two names that are equal under the
\* case-insensitive compare after trimming.
C14_NoCaseInsensitiveDuplicates ==
    \A a \in categories, b \in categories : a # b => ~categoryNameMatches(a, b)

(***************************************************************************)
(* Stored data written before 'Dining' became 'Restaurants'                *)
(***************************************************************************)
\* Cafe/POS assigned to 'Dining'
DiningOverrideStore ==
    Store(<<<<makeOverrideKey(MerchantCafe, TitlePOS), Dining>>>>, defaultCategories)

\* 'Old' renamed to 'Dining', the stored Category Set still naming 'Dining'
DiningAliasStore ==
    Store(<<<<makeCategoryAliasKey(Old), Dining>>>>, (defaultCategories \ {Restaurants}) \cup {Dining})

InitLegacy ==
    InitWith({"anonymous"}, {DiningOverrideStore, DiningAliasStore}, RemoteProfiles, MaxActions)

SpecLegacy == InitLegacy /\ [][NextImport]_vars

NoDiningValue(ovr) == \A i \in 1..Len(ovr) : ovr[i][2] # Dining

\* C15: once the stored configuration is loaded, 'Dining' is neither in the
\* Category Set nor an override value nor an alias target, and no transaction
\* has category 'Dining' after a pass.
C15_DiningRewrittenEverywhere ==
    [][/\ ~authLoading' => (Dining \notin categories' /\ NoDiningValue(overrides'))
       /\ \A p \in inflight :
             CategorizeDone(p) => \A i \in 1..Len(txs') : txs'[i].category # Dining]_vars

(***************************************************************************)
(* A reload pass over a drawn view, Category Set and recorded alias: the   *)
(* merge of inferred and explicit aliases as the pass computes it          *)
(***************************************************************************)
MergeCategorySets == {s \cup {Other} : s \in SUBSET {TaxesFees, Misc, Shopping}}
MergeOverrides ==
    {<<>>, <<<<makeCategoryAliasKey(Fees), Misc>>>>, <<<<makeCategoryAliasKey(feesLower), Misc>>>>}

InitPass(sets, maps, shownNames, rules) ==
    /\ entryMode = "anonymous"
    /\ userEmail = NoUser
    /\ authLoading = FALSE
    /\ cookieConsent = AllConsent
    /\ localStore = FreshStore
    /\ remoteStore = RemoteProfiles
    /\ categories \in sets
    /\ overrides \in maps
    /\ \E shown \in shownNames, rule \in rules :
          txs = <<[Tx(MerchantBank, TitlePOS, rule) EXCEPT !.category = shown]>>
    /\ statementDetails = <<"statement1.pdf">>
    /\ editingCategory = Undefined
    /\ loading = FALSE
    /\ error = FALSE
    /\ inflight = {}
    /\ pendingLoad = <<>>
    /\ sessionStorage = NoStorage
    /\ actionsLeft = MaxActions
    /\ savingsAccounts = <<>>

InitMerge == InitPass(MergeCategorySets, MergeOverrides, {Fees, feesLower, Old}, {Fees, feesLower})

NextMerge ==
    \/ OnReloadView
    \/ \E p \in inflight : CategorizeDone(p)
    \/ \E p \in inflight : HandlerFail(p)

SpecMerge == InitMerge /\ [][NextMerge]_vars

\* C16: when a recorded alias O -> N (N in the Category Set) and an inferred
\* alias have old names that match ignoring case, a transaction the
\* categorizer returns with a name matching O ends with N.
C16_ExplicitAliasWins ==
    [][\A p \in inflight :
          (CategorizeDone(p) /\ p.kind = "reload")
          => LET inferred == inferCategoryAliasesFromExistingData(p.txs, p.categories)
                 explicit == extractCategoryAliases(p.overrides)
                 categorized == categorize(Request(p), p.overrides)
             IN  \A i \in 1..Len(txs'), k \in 1..Len(explicit), j \in 1..Len(inferred) :
                    (/\ categoryNameMatches(inferred[j][1], explicit[k][1])
                     /\ categoryNameMatches(categorized[i].category, explicit[k][1])
                     /\ explicit[k][2] \in p.categories)
                    => txs'[i].category = explicit[k][2]]_vars

(***************************************************************************)
(* A reload pass over a view whose names are absent from the Category Set: *)
(* zero, one or several candidates for the inference, with the set as the  *)
(* user's edits leave it (with 'Other', or with 'Other' renamed to 'Misc') *)
(***************************************************************************)
InferCategorySets ==
    {s \cup o : s \in SUBSET {TaxesFees, feesLower, Restaurants}, o \in {{Other}, {Misc}}}
InferOverrides == {<<>>, <<<<makeCategoryAliasKey(Old), Misc>>>>}
InferNames == {Fees, Old, Dining}

InitInfer == InitPass(InferCategorySets, InferOverrides, InferNames, InferNames)

SpecInfer == InitInfer /\ [][NextMerge]_vars

\* the current categories that contain the name or are contained in it,
\* ignoring case
Candidates(oldName, cats) ==
    {c \in cats : \/ Includes(ToLowerCase(c), ToLowerCase(oldName))
                  \/ Includes(ToLowerCase(oldName), ToLowerCase(c))}

\* C17: for a name old on the displayed transactions and absent from the
\* Category Set, the inference yields old -> c exactly when c is the only
\* candidate; with zero or several candidates it yields nothing for old and a
\* transaction the pass receives with old (no recorded alias matching it)
\* ends in 'Other'.
C17_InferenceNeedsOneCandidate ==
    [][\A p \in inflight :
          (CategorizeDone(p) /\ p.kind = "reload")
          => LET inferred == inferCategoryAliasesFromExistingData(p.txs, p.categories)
                 explicit == extractCategoryAliases(p.overrides)
                 categorized == categorize(Request(p), p.overrides)
             IN  \A n \in 1..Len(p.txs) :
                    LET oldName == p.txs[n].category
                        cand == Candidates(oldName, p.categories)
                    IN  oldName \notin p.categories
                        => /\ \A c \in p.categories :
                                 (\E j \in 1..Len(inferred) : inferred[j] = <<oldName, c>>)
                                 <=> cand = {c}
                           /\ Cardinality(cand) # 1
                              => /\ \A j \in 1..Len(inferred) : inferred[j][1] # oldName
                                 /\ \A i \in 1..Len(txs') :
                                       (/\ categorized[i].category = oldName
                                        /\ \A k \in 1..Len(explicit) :
                                              ~categoryNameMatches(oldName, explicit[k][1]))
                                       => txs'[i].category = Other]_vars

\* C18: editingCategory is never 'Other'; startRenameCategory('Other') leaves
\* the editing state as it is, and handleDeleteCategory('Other') leaves
\* Category Set, override map, transactions and both stores unchanged and
\* starts no handler that would save or categorize.
C18_OtherIsReserved ==
    /\ [](editingCategory # Other)
    /\ [][/\ StartRenameCategory(Other) => editingCategory' = editingCategory
          /\ HandleDeleteCategory(Other)
             => UNCHANGED <<categories, overrides, txs, editingCategory, inflight,
                            sessionStorage, localStore, remoteStore>>]_vars

\* the one user action taken so far was refused: nothing was edited, no
\* handler is running
C18_OtherRefused ==
    /\ Ready
    /\ isLoggedIn(userEmail)
    /\ Len(txs) > 0
    /\ actionsLeft = MaxActions - 1
    /\ editingCategory = Undefined
    /\ inflight = {}
    /\ ~error
    /\ Other \in categories
    /\ categories = normalizeCategories(remoteStore[userEmail].categories)
    /\ overrides = remoteStore[userEmail].overrides

\* C19: a save that resolves writes the override map its edit built into the
\* account's store whatever the store and the in-memory state hold by then,
\* the result of a later edit included.
C19_LateSaveOverwrites ==
    [][\A p \in inflight :
          (SaveDone(p) /\ p.kind = "override")
          => remoteStore'[userEmail].overrides = p.overrides]_vars

\* both edits have run to their end without an error: the account's store
\* holds the first edit's map, the in-memory state the second's
C19_EarlierEditPersisted ==
    /\ inflight = {}
    /\ ~error
    /\ isLoggedIn(userEmail)
    /\ Len(remoteStore[userEmail].overrides) = 1
    /\ Len(overrides) = 2
    /\ overrides[1] = remoteStore[userEmail].overrides[1]

(***************************************************************************)
(* Savings accounts: normalizeIban, the account match on a transaction's   *)
(* raw lines, the totals of incomeVsExpenses and the per-account summaries *)
(* of Dashboard, and App's handlers that add and delete an account.        *)
(* A savings transaction carries amount (number | null: a sequence of at   *)
(* most one integer, in minor units), direction and raw_lines.             *)
(***************************************************************************)
UpperChar(c) ==
    IF \E u \in DOMAIN UpperToLower : UpperToLower[u] = c
    THEN CHOOSE u \in DOMAIN UpperToLower : UpperToLower[u] = c
    ELSE c

ToUpperCase(s) == [i \in 1..Len(s) |-> UpperChar(s[i])]

\* value.replace(/\s+/g, '').toUpperCase()
normalizeIban(value) == ToUpperCase(SelectSeq(value, LAMBDA c : c # " "))

Abs(n) == IF n < 0 THEN 0 - n ELSE n

txMentionsSavingsAccount(tx, targetIban) ==
    LET targetNorm == normalizeIban(targetIban)
        lines == tx.raw_lines      \* an absent raw_lines is the empty list
    IN  \E n \in 1..Len(lines) : Includes(normalizeIban(lines[n]), targetNorm)

txMentionsAnySavingsAccount(tx, accounts) ==
    /\ Len(accounts) > 0
    /\ \E k \in 1..Len(accounts) : txMentionsSavingsAccount(tx, accounts[k])

\* the loop of incomeVsExpenses over the transactions in order
RECURSIVE incomeVsExpensesTotals(_, _)
incomeVsExpensesTotals(transactions, accounts) ==
    IF transactions = <<>>
    THEN [income |-> 0, expenses |-> 0, savingsIn |-> 0, savingsOut |-> 0]
    ELSE LET acc == incomeVsExpensesTotals(SubSeq(transactions, 1, Len(transactions) - 1),
                                           accounts)
             t == transactions[Len(transactions)]
         IN  IF t.amount = Null THEN acc
             ELSE LET amountAbs == Abs(t.amount[1])
                      flows == IF t.direction = "credit"
                               THEN [acc EXCEPT !.income = @ + amountAbs]
                               ELSE [acc EXCEPT !.expenses = @ + amountAbs]
                  IN  IF ~txMentionsAnySavingsAccount(t, accounts) THEN flows
                      ELSE IF t.direction = "credit"
                      THEN [flows EXCEPT !.savingsOut = @ + amountAbs]
                      ELSE IF t.direction = "debit"
                      THEN [flows EXCEPT !.savingsIn = @ + amountAbs]
                      ELSE flows

\* the summary of incomeVsExpenses, with the two savings totals it is built from
incomeVsExpenses(transactions, accounts) ==
    LET totals == incomeVsExpensesTotals(transactions, accounts)
    IN  [summary |-> [income |-> totals.income,
                      expenses |-> totals.expenses,
                      difference |-> totals.income - totals.expenses,
                      savings |-> totals.savingsIn - totals.savingsOut],
         savingsIn |-> totals.savingsIn,
         savingsOut |-> totals.savingsOut]

\* rows.reduce((s, t) => s + Math.abs(t.amount), 0)
RECURSIVE SumAbsAmounts(_)
SumAbsAmounts(rows) ==
    IF rows = <<>> THEN 0
    ELSE SumAbsAmounts(SubSeq(rows, 1, Len(rows) - 1)) + Abs(rows[Len(rows)].amount[1])

AccountSummarySwapped(rows) ==
    LET inTotal == SumAbsAmounts(SelectSeq(rows, LAMBDA t : t.direction = "credit"))
        outTotal == SumAbsAmounts(SelectSeq(rows, LAMBDA t : t.direction = "debit"))
    IN  [count |-> Len(rows), inTotal |-> inTotal, outTotal |-> outTotal,
         net |-> inTotal - outTotal]

AccountSummary(rows) ==
    LET inTotal == SumAbsAmounts(SelectSeq(rows, LAMBDA t : t.direction = "debit"))
        outTotal == SumAbsAmounts(SelectSeq(rows, LAMBDA t : t.direction = "credit"))
    IN  [count |-> Len(rows), inTotal |-> inTotal, outTotal |-> outTotal,
         net |-> inTotal - outTotal]

\* byAccount of savingsAccountSummaries
RECURSIVE savingsAccountSummaries(_, _)
savingsAccountSummaries(accounts, transactions) ==
    IF accounts = <<>> THEN <<>>
    ELSE LET account == accounts[Len(accounts)]
             rows == SelectSeq(transactions,
                               LAMBDA t : /\ t.amount # Null
                                          /\ txMentionsSavingsAccount(t, account))
         IN  ObjPut(savingsAccountSummaries(SubSeq(accounts, 1, Len(accounts) - 1),
                                            transactions),
                    account, AccountSummary(rows))

\* the categorize request of the onReloadView a savings handler calls: that
\* onReloadView is the one of the render the handler was created in, and its
\* third argument is that render's savingsAccounts
ReloadRequest(kind, closureAccounts) ==
    [kind |-> kind, phase |-> "categorize", button |-> FALSE, txs |-> txs,
     categories |-> categories, overrides |-> overrides, name |-> Undefined,
     trimmed |-> Undefined, file |-> NoFile, savingsAccounts |-> closureAccounts]

OnAddSavingsAccountAsTyped(iban) ==
    LET normalized == iban
        known == \E k \in 1..Len(savingsAccounts) : savingsAccounts[k] = normalized
    IN  /\ DashboardAction
        /\ ~isAccountMode
        /\ ~\E p \in inflight : p.kind = "addSavings"       \* savingsAddBusy
        /\ IF normalized = EmptyString \/ known
           THEN UNCHANGED <<savingsAccounts, inflight, error>>
           ELSE /\ savingsAccounts' = Append(savingsAccounts, normalized)
                /\ IF Len(txs) = 0 THEN UNCHANGED <<inflight, error>>
                   ELSE /\ error' = FALSE
                        /\ inflight' = inflight \cup
                               {ReloadRequest("addSavings", savingsAccounts)}
        /\ UNCHANGED <<entryMode, userEmail, authLoading, cookieConsent, categories, overrides,
                       txs, statementDetails, editingCategory, loading, pendingLoad,
                       sessionStorage, localStore, remoteStore>>

\* onAddSavingsAccount behind Dashboard's handleAddSavingsAccount, in
\* anonymous mode (saveSettings is a local write): the account is appended
\* and onReloadView runs with the view of the render that called the handler
OnAddSavingsAccount(iban) ==
    LET normalized == normalizeIban(iban)
        known == \E k \in 1..Len(savingsAccounts) : savingsAccounts[k] = normalized
    IN  /\ DashboardAction
        /\ ~isAccountMode
        /\ ~\E p \in inflight : p.kind = "addSavings"       \* savingsAddBusy
        /\ IF normalized = EmptyString \/ known
           THEN UNCHANGED <<savingsAccounts, inflight, error>>
           ELSE /\ savingsAccounts' = Append(savingsAccounts, normalized)
                /\ IF Len(txs) = 0 THEN UNCHANGED <<inflight, error>>
                   ELSE /\ error' = FALSE
                        /\ inflight' = inflight \cup
                               {ReloadRequest("addSavings", savingsAccounts)}
        /\ UNCHANGED <<entryMode, userEmail, authLoading, cookieConsent, categories, overrides,
                       txs, statementDetails, editingCategory, loading, pendingLoad,
                       sessionStorage, localStore, remoteStore>>

\* onDeleteSavingsAccount behind Dashboard's handleDeleteSavingsAccount
OnDeleteSavingsAccount(iban) ==
    LET normalized == normalizeIban(iban)
    IN  /\ DashboardAction
        /\ ~isAccountMode
        /\ ~\E p \in inflight : p.kind = "deleteSavings"    \* savingsDeleteBusyAccount
        /\ savingsAccounts' = SelectSeq(savingsAccounts, LAMBDA a : a # normalized)
        /\ IF Len(txs) = 0 THEN UNCHANGED <<inflight, error>>
           ELSE /\ error' = FALSE
                /\ inflight' = inflight \cup
                       {ReloadRequest("deleteSavings", savingsAccounts)}
        /\ UNCHANGED <<entryMode, userEmail, authLoading, cookieConsent, categories, overrides,
                       txs, statementDetails, editingCategory, loading, pendingLoad,
                       sessionStorage, localStore, remoteStore>>

\* longest view drawn for the savings totals
MaxViewLen == 2

IbanRO12 == <<"R", "O", "1", "2">>
IbanRO1Typed == <<"r", "o", " ", "1">>
LineToRO12 == <<"t", "o", " ", "R", "O", "1", "2">>
LineRO19 == <<"r", "o", "1", " ", "9">>
LineCard == <<"c", "a", "r", "d">>
IbanRO12Spaced == <<"r", "o", "1", " ", "2">>
Blank == <<" ">>
SavingsInputs == {IbanRO12, IbanRO12Spaced, IbanRO1Typed, Blank, EmptyString}

SavingsTx(amount, direction, raw_lines) ==
    [merchant |-> MerchantBank, title |-> TitlePOS, rule |-> Savings, category |-> Savings,
     amount |-> amount, direction |-> direction, raw_lines |-> raw_lines]

SavingsTxs ==
    {SavingsTx(<<7>>, "debit", <<LineCard, LineToRO12>>),
     SavingsTx(<<0 - 5>>, "credit", <<LineRO19>>),
     SavingsTx(<<3>>, "credit", <<LineToRO12>>),
     SavingsTx(<<2>>, "debit", <<LineRO19>>),
     SavingsTx(Null, "debit", <<LineToRO12>>),
     SavingsTx(<<4>>, "debit", <<>>)}

SavingsViews ==
    UNION {[1..n -> SavingsTxs] : n \in 1..MaxViewLen}

InitSavings ==
    /\ entryMode = "anonymous"
    /\ userEmail = NoUser
    /\ authLoading = FALSE
    /\ cookieConsent = AllConsent
    /\ localStore = FreshStore
    /\ remoteStore = RemoteProfiles
    /\ categories = defaultCategories
    /\ overrides = <<>>
    /\ txs \in SavingsViews
    /\ statementDetails = <<"statement1.pdf">>
    /\ editingCategory = Undefined
    /\ loading = FALSE
    /\ error = FALSE
    /\ inflight = {}
    /\ pendingLoad = <<>>
    /\ sessionStorage = saveDashboardCacheForContext(NoStorage, AllConsent, "anonymous", NoUser,
                                                      txs, statementDetails)
    /\ actionsLeft = MaxActions
    /\ savingsAccounts = <<>>

NextSavings ==
    \/ \E iban \in SavingsInputs : OnAddSavingsAccount(iban)
    \/ \E k \in 1..Len(savingsAccounts) : OnDeleteSavingsAccount(savingsAccounts[k])
    \/ \E p \in inflight : CategorizeDone(p)
    \/ \E p \in inflight : HandlerFail(p)

SpecSavings == InitSavings /\ [][NextSavings]_vars

\* positions of the view with a non-null amount whose transaction has the
\* given direction and mentions one of the given accounts
Mentioning(accounts, direction) ==
    {i \in 1..Len(txs) :
        /\ txs[i].amount # Null
        /\ txs[i].direction = direction
        /\ \E a \in accounts : txMentionsSavingsAccount(txs[i], a)}

RECURSIVE AbsTotal(_)
AbsTotal(positions) ==
    IF positions = {} THEN 0
    ELSE LET i == CHOOSE j \in positions : TRUE
         IN  Abs(txs[i].amount[1]) + AbsTotal(positions \ {i})

\* C20: savings-in is the sum of the absolute amounts of the debits that
\* mention a configured account, savings-out that of the credits, net is in
\* minus out; the summary of each account counts and sums exactly the
\* transactions with an amount that mention that account.
C20_SavingsTotals ==
    LET configured == {savingsAccounts[k] : k \in 1..Len(savingsAccounts)}
        totals == incomeVsExpenses(txs, savingsAccounts)
        byAccount == savingsAccountSummaries(savingsAccounts, txs)
    IN  /\ totals.savingsIn = AbsTotal(Mentioning(configured, "debit"))
        /\ totals.savingsOut = AbsTotal(Mentioning(configured, "credit"))
        /\ totals.summary.savings = totals.savingsIn - totals.savingsOut
        /\ ObjKeys(byAccount) = configured
        /\ \A a \in configured :
              LET summary == ObjGet(byAccount, a)
                  debits == Mentioning({a}, "debit")
                  credits == Mentioning({a}, "credit")
              IN  /\ summary.count = Cardinality(debits \cup credits)
                  /\ summary.inTotal = AbsTotal(debits)
                  /\ summary.outTotal = AbsTotal(credits)
                  /\ summary.net = summary.inTotal - summary.outTotal

\* two accounts are configured, a debit mentions both and a credit mentions
\* only one of them
C20_TransactionInTwoSummaries ==
    /\ Len(savingsAccounts) = 2
    /\ inflight = {}
    /\ \E i \in Mentioning({savingsAccounts[1]}, "debit") :
          i \in Mentioning({savingsAccounts[2]}, "debit")
    /\ Mentioning({savingsAccounts[1]}, "credit") # Mentioning({savingsAccounts[2]}, "credit")

\* C21: every configured savings account is a non-empty string without
\* whitespace or lower-case letters and is listed once; adding an input that
\* normalizes to the empty string changes nothing and starts no save or
\* categorize call.
C21_SavingsAccountsNormalized ==
    /\ [](\A k \in 1..Len(savingsAccounts) :
             /\ savingsAccounts[k] # EmptyString
             /\ \A n \in 1..Len(savingsAccounts[k]) :
                   /\ savingsAccounts[k][n] # " "
                   /\ \A u \in DOMAIN UpperToLower : savingsAccounts[k][n] # UpperToLower[u]
             /\ \A j \in 1..Len(savingsAccounts) : savingsAccounts[j] = savingsAccounts[k] => j = k)
    /\ [][\A iban \in SavingsInputs :
             (OnAddSavingsAccount(iban) /\ normalizeIban(iban) = EmptyString)
             => UNCHANGED <<savingsAccounts, inflight, txs, error, sessionStorage, localStore,
                            remoteStore>>]_vars

\* both inputs were typed in lower case with a space; the second repeats an
\* account in another spelling
C21_TypedAccountsAdded ==
    /\ savingsAccounts = <<normalizeIban(IbanRO1Typed), IbanRO12>>
    /\ actionsLeft = MaxActions - 2
    /\ inflight = {}

(***************************************************************************)
(* Cookie consent: applyCookieConsentSelection with                        *)
(* clearOptionalBrowserStorageByConsent, in a tab whose session storage    *)
(* holds versioned and legacy cache entries                                *)
(***************************************************************************)
isDashboardCacheKey(key) ==
    \/ key[1] \in {DASHBOARD_CACHE_PREFIX, STATEMENT_DETAILS_CACHE_PREFIX}
    \/ key \in {LEGACY_DASHBOARD_CACHE_KEY, LEGACY_STATEMENT_DETAILS_CACHE_KEY}

\* the session-storage part of clearOptionalBrowserStorageByConsent
clearOptionalBrowserStorageByConsent(storage, consent) ==
    IF consent.performance THEN storage
    ELSE [k \in {key \in DOMAIN storage : ~isDashboardCacheKey(key)} |-> storage[k]]

ApplyCookieConsentSelectionKeepingCache(nextDraft) ==
    LET cached == CacheLoadEffect(sessionStorage, nextDraft, entryMode, userEmail)
        shown == IF ~nextDraft.performance
                 THEN IF canUseDashboard(entryMode, userEmail) THEN EmptyCache
                      ELSE [txs |-> txs, statementDetails |-> statementDetails]
                 ELSE IF Len(cached.txs) > 0 THEN cached
                 ELSE [txs |-> txs, statementDetails |-> statementDetails]
    IN  /\ UserAction
        /\ cookieConsent' = nextDraft
        /\ localStore' = IF nextDraft.preferences THEN localStore ELSE FreshStore
        /\ overrides' = IF nextDraft.preferences THEN overrides ELSE <<>>
        /\ categories' = IF nextDraft.preferences THEN categories ELSE defaultCategories
        /\ savingsAccounts' = IF nextDraft.preferences THEN savingsAccounts ELSE <<>>
        /\ txs' = shown.txs
        /\ statementDetails' = shown.statementDetails
        /\ sessionStorage' = sessionStorage
        /\ UNCHANGED <<entryMode, userEmail, authLoading, editingCategory, loading, error,
                       inflight, pendingLoad, remoteStore>>

\* applyCookieConsentSelection, with the save effect of the render it causes
ApplyCookieConsentSelection(nextDraft) ==
    LET cleared == clearOptionalBrowserStorageByConsent(sessionStorage, nextDraft)
        cached == CacheLoadEffect(cleared, nextDraft, entryMode, userEmail)
        shown == IF ~nextDraft.performance
                 THEN IF canUseDashboard(entryMode, userEmail) THEN EmptyCache
                      ELSE [txs |-> txs, statementDetails |-> statementDetails]
                 ELSE IF Len(cached.txs) > 0 THEN cached
                 ELSE [txs |-> txs, statementDetails |-> statementDetails]
    IN  /\ UserAction
        /\ cookieConsent' = nextDraft
        /\ localStore' = IF nextDraft.preferences THEN localStore ELSE FreshStore
        /\ overrides' = IF nextDraft.preferences THEN overrides ELSE <<>>
        /\ categories' = IF nextDraft.preferences THEN categories ELSE defaultCategories
        /\ savingsAccounts' = IF nextDraft.preferences THEN savingsAccounts ELSE <<>>
        /\ txs' = shown.txs
        /\ statementDetails' = shown.statementDetails
        /\ sessionStorage' =
               IF <<txs', statementDetails'>> = <<txs, statementDetails>> THEN cleared
               ELSE CacheSaveEffect(cleared, nextDraft, authLoading, entryMode, userEmail,
                                    txs', statementDetails')
        /\ UNCHANGED <<entryMode, userEmail, authLoading, editingCategory, loading, error,
                       inflight, pendingLoad, remoteStore>>

ConsentDrafts == [preferences : BOOLEAN, performance : BOOLEAN]

\* the cache of UsedStorage next to the entries an earlier version left
LegacyStorage ==
    StorageSet(StorageSet(UsedStorage(FreshStore, RemoteProfiles),
                          LEGACY_DASHBOARD_CACHE_KEY, JsonArray(LegacyView.txs)),
               LEGACY_STATEMENT_DETAILS_CACHE_KEY, JsonObject(LegacyView.statementDetails))

InitConsent ==
    /\ entryMode \in {"anonymous", "account"}
    /\ userEmail = NoUser
    /\ authLoading = TRUE
    /\ cookieConsent = AllConsent
    /\ localStore = FreshStore
    /\ remoteStore = RemoteProfiles
    /\ categories = defaultCategories
    /\ overrides = <<>>
    /\ txs = <<>>
    /\ statementDetails = Null
    /\ editingCategory = Undefined
    /\ loading = FALSE
    /\ error = FALSE
    /\ inflight = {}
    /\ pendingLoad = <<>>
    /\ sessionStorage = LegacyStorage
    /\ actionsLeft = MaxActions
    /\ savingsAccounts = <<>>

NextConsent ==
    \/ \E session \in {NoUser, UserA} : Bootstrap(session)
    \/ CommitLoad
    \/ \E nextDraft \in ConsentDrafts : ApplyCookieConsentSelection(nextDraft)
    \/ \E file \in Files : RunUpload(file)
    \/ \E i \in 1..Len(txs) : OnOverrideMerchant(txs[i].merchant, txs[i].title, Other)
    \/ \E p \in inflight : ParseDone(p)
    \/ \E p \in inflight : CategorizeDone(p)
    \/ \E p \in inflight : HandlerFail(p)

SpecConsent == InitConsent /\ [][NextConsent]_vars

RenameFieldInputs == {Misc, Groceries, <<" ", " ">>, EmptyString}

NextRename ==
    \/ \E session \in {NoUser, UserA} : Bootstrap(session)
    \/ CommitLoad
    \/ StartRenameCategory(Groceries)
    \/ CancelRenameCategory
    \/ \E v \in RenameFieldInputs, button \in BOOLEAN : ApplyRenameCategory(v, button)
    \/ \E i \in 1..Len(txs) : OnOverrideMerchant(txs[i].merchant, txs[i].title, Other)
    \/ \E p \in inflight : SaveDone(p)
    \/ \E p \in inflight : CategorizeDone(p)
    \/ \E p \in inflight : HandlerFail(p)

SpecRename == InitSave /\ [][NextRename]_vars

\* C23: applyRenameCategory with a name that is empty after trimming or
\* equal to the name being edited, and cancelRenameCategory, end the editing
\* and change neither Category Set, override map, transactions nor a store,
\* and start no handler.
C23_RenameNoOpAndCancel ==
    [][/\ \A v \in RenameFieldInputs, button \in BOOLEAN :
             (/\ ApplyRenameCategory(v, button)
              /\ (Trim(v) = EmptyString \/ Trim(v) = editingCategory))
             => /\ editingCategory' = Undefined
                /\ UNCHANGED <<categories, overrides, txs, inflight, sessionStorage,
                               localStore, remoteStore>>
       /\ CancelRenameCategory
          => /\ editingCategory' = Undefined
             /\ UNCHANGED <<categories, overrides, txs, inflight, sessionStorage,
                            localStore, remoteStore>>]_vars

\* the rename of 'Groceries' was started and then ended without a change
C23_RenameEndedUnchanged ==
    /\ Ready
    /\ isLoggedIn(userEmail)
    /\ Len(txs) > 0
    /\ actionsLeft = MaxActions - 2
    /\ editingCategory = Undefined
    /\ inflight = {}
    /\ ~error
    /\ Groceries \in categories
    /\ overrides = remoteStore[userEmail].overrides
    /\ categories = normalizeCategories(remoteStore[userEmail].categories)

(***************************************************************************)
(* Saves and loads of one context over a session storage whose anonymous   *)
(* and legacy keys hold a view, something else, or nothing                 *)
(***************************************************************************)
AnonymousContents ==
    {WithItem(WithItem(WithItem(WithItem(NoStorage,
        getDashboardCacheKey("anonymous", NoUser), a),
        getStatementDetailsCacheKey("anonymous", NoUser), b),
        LEGACY_DASHBOARD_CACHE_KEY, c),
        LEGACY_STATEMENT_DETAILS_CACHE_KEY, d) :
     a \in TxItems(VersionedView), b \in DetailsItems(VersionedView),
     c \in TxItems(LegacyView), d \in DetailsItems(LegacyView)}

InitCacheOps ==
    /\ \/ entryMode = "anonymous" /\ userEmail = NoUser
       \/ entryMode = "account" /\ userEmail = UserB
    /\ authLoading = FALSE
    /\ cookieConsent \in {AllConsent, [preferences |-> TRUE, performance |-> FALSE]}
    /\ localStore = FreshStore
    /\ remoteStore = RemoteProfiles
    /\ categories = defaultCategories
    /\ overrides = <<>>
    /\ txs = <<>>
    /\ statementDetails = Null
    /\ editingCategory = Undefined
    /\ loading = FALSE
    /\ error = FALSE
    /\ inflight = {}
    /\ pendingLoad = <<>>
    /\ sessionStorage \in IF cookieConsent.performance THEN AnonymousContents ELSE {NoStorage}
    /\ actionsLeft = MaxActions
    /\ savingsAccounts = <<>>

\* one call of saveDashboardCacheForContext for the current context
SaveDashboardCache(transactions, details) ==
    /\ actionsLeft > 0
    /\ actionsLeft' = actionsLeft - 1
    /\ sessionStorage' = saveDashboardCacheForContext(sessionStorage, cookieConsent, entryMode,
                                                      userEmail, transactions, details)
    /\ pendingLoad' = <<>>
    /\ UNCHANGED <<savingsAccounts, entryMode, userEmail, authLoading, cookieConsent,
                   categories, overrides, txs, statementDetails, editingCategory, loading,
                   error, inflight, localStore, remoteStore>>

SavedViews == {<<>>, VersionedView.txs}

NextCacheOps ==
    \/ \E transactions \in SavedViews, details \in {Null, VersionedView.statementDetails} :
           SaveDashboardCache(transactions, details)
    \/ LoadDashboardCache

SpecCacheOps == InitCacheOps /\ [][NextCacheOps]_vars

C25_LegacyOnlyWhenVersionedAbsent ==
    LET txKey == getDashboardCacheKey("anonymous", NoUser)
        detailsKey == getStatementDetailsCacheKey("anonymous", NoUser)
        versioned == ReadCachePair(sessionStorage, txKey, detailsKey)
    IN  (/\ pendingLoad # <<>>
         /\ entryMode = "anonymous"
         /\ cookieConsent.performance
         /\ txKey \in DOMAIN sessionStorage)
        => pendingLoad[1] = IF versioned # <<>> THEN versioned[1] ELSE EmptyCache


(***************************************************************************)
(* runUpload over a view that is already displayed                         *)
(***************************************************************************)
\* C26: a successful import sets the view to the rows parsed from the new
\* document, categorized (no row of the earlier view is kept), and leaves the
\* override map, alias entries included, and the Category Set as they were.
C26_ImportReplacesView ==
    [][\A p \in inflight :
          (CategorizeDone(p) /\ p.kind = "upload")
          => /\ txs' = PassResult(p)
             /\ StripCategory(txs') = parseStatement(p.file)
             /\ statementDetails' = <<p.file>>
             /\ overrides' = overrides
             /\ extractCategoryAliases(overrides') = extractCategoryAliases(overrides)
             /\ categories' = categories]_vars

\* statement2.pdf imported over the view of statement1.pdf
C26_SecondImportShown ==
    /\ StripCategory(txs) = parseStatement("statement2.pdf")
    /\ statementDetails = <<"statement2.pdf">>
    /\ actionsLeft = 0
    /\ inflight = {}
    /\ Len(overrides) > 0


(***************************************************************************)
(* Two edits whose categorize responses arrive in the other order          *)
(***************************************************************************)
\* a pass over the displayed rows with the current override map and Category Set
CurrentPass(transactions, cats, ovr) ==
    PassResult(Handler("reload", "categorize", FALSE, transactions, cats, ovr,
                       Undefined, Undefined, NoFile))

\* C27: when the last pending categorize response of an override edit is
\* handled without error, every displayed category is the one a pass over the
\* current override map and current Category Set gives that row.
C27_LastResponseShowsCurrentPass ==
    [][\A p \in inflight :
          (CategorizeDone(p) /\ p.kind = "override" /\ inflight' = {} /\ ~error')
          => \A i \in 1..Len(txs') :
                txs'[i].category = CurrentPass(txs', categories', overrides')[i].category]_vars


(***************************************************************************)
(* The savings accounts sent with the reload of a savings edit             *)
(***************************************************************************)
\* C28: the categorize request that onAddSavingsAccount or
\* onDeleteSavingsAccount puts in flight carries the savings accounts as the
\* edit leaves them: with the account just added, without the one just deleted.
C28_ReloadSendsUpdatedAccounts ==
    [][/\ \A iban \in SavingsInputs :
             OnAddSavingsAccount(iban)
             => \A p \in inflight' \ inflight : p.savingsAccounts = savingsAccounts'
       /\ \A k \in 1..Len(savingsAccounts) :
             OnDeleteSavingsAccount(savingsAccounts[k])
             => \A p \in inflight' \ inflight : p.savingsAccounts = savingsAccounts']_vars


(***************************************************************************)
(* Category actions started while another one is pending                   *)
(***************************************************************************)
InitBusy == InitWith({"account"}, {FreshStore}, RemoteProfiles, MaxActions + 1)

NextBusy ==
    \/ Bootstrap(UserA)
    \/ CommitLoad
    \/ StartRenameCategory(Groceries)
    \/ HandleAddCategory(Misc)
    \/ \E button \in BOOLEAN : ApplyRenameCategory(Food, button)
    \/ HandleDeleteCategory(Shopping)
    \/ \E p \in inflight : SaveDone(p)
    \/ \E p \in inflight : CategorizeDone(p)
    \/ \E p \in inflight : HandlerFail(p)

SpecBusy == InitBusy /\ [][NextBusy]_vars

\* C29: at most one add, rename or delete of a category is in flight,
\* whether it was started by a button or by Enter in the rename field.
C29_OneCategoryMutationInFlight ==
    Cardinality({p \in inflight : p.kind \in {"add", "rename", "delete"}}) <= 1


(***************************************************************************)
(* onOverrideTransaction and onResetAppState; every override value in the  *)
(* Category Set                                                            *)
(***************************************************************************)
\* `${merchant}||${title}||${date}||${amountPart}`: the rows of the model
\* carry no date (''), and a null or missing amount gives ''; an amount is
\* kept as its number in place of its two-decimal text
makeTransactionOverrideKey(tx) ==
    <<Trim(tx.merchant), Trim(tx.title), EmptyString,
      IF "amount" \in DOMAIN tx THEN tx.amount ELSE EmptyString>>

\* onOverrideTransaction: the category select of a row in transaction scope
OnOverrideTransaction(tx, category) ==
    LET next == ObjPut(overrides, makeTransactionOverrideKey(tx), category)
    IN  /\ DashboardControls
        /\ overrides' = next
        /\ loading' = TRUE
        /\ error' = FALSE
        /\ localStore' = SaveLocally(localStore.categories, next)
        /\ inflight' = inflight \cup
               {Handler("override", FirstAwait, FALSE, txs, categories, next,
                        Undefined, Undefined, NoFile)}
        /\ UNCHANGED <<savingsAccounts, entryMode, userEmail, authLoading, cookieConsent, categories, txs,
                       statementDetails, editingCategory, pendingLoad, sessionStorage,
                       remoteStore>>

\* nextOverrides of onResetAppState: a value outside the defaults becomes 'Other'
ResetOverrides(ovr) ==
    [i \in 1..Len(ovr) |->
        <<ovr[i][1], IF ovr[i][2] \in defaultCategories THEN ovr[i][2] ELSE Other>>]

\* prev.map(t => allowedCategories.has(t.category ?? 'Other') ? t : {...t, category: 'Other'})
ResetTxs(transactions) ==
    [i \in 1..Len(transactions) |->
        LET c == IF transactions[i].category = Undefined THEN Other
                 ELSE transactions[i].category
        IN  IF c \in defaultCategories THEN transactions[i]
            ELSE [transactions[i] EXCEPT !.category = Other]]

\* a reset that sets the default Category Set and keeps the override map
OnResetAppStateKeepingOverrides ==
    /\ DashboardControls
    /\ ~loading                                    \* canResetCategories
    /\ ~\E p \in inflight : p.kind = "reset"       \* isResettingSettings
    /\ overrides' = overrides
    /\ categories' = defaultCategories
    /\ editingCategory' = Undefined
    /\ savingsAccounts' = <<>>
    /\ txs' = ResetTxs(txs)
    /\ sessionStorage' = SaveTxs(txs', statementDetails)
    /\ error' = FALSE
    /\ IF isAccountMode
       THEN /\ loading' = TRUE
            /\ inflight' = inflight \cup
                   {Handler("reset", "save", FALSE, txs, defaultCategories,
                            overrides, Undefined, Undefined, NoFile)}
            /\ UNCHANGED localStore
       ELSE /\ loading' = FALSE
            /\ localStore' = SaveLocally(defaultCategories, overrides)
            /\ UNCHANGED inflight
    /\ UNCHANGED <<entryMode, userEmail, authLoading, cookieConsent, statementDetails,
                   pendingLoad, remoteStore>>

\* onResetAppState behind Dashboard's handleResetSettings, confirmed by the user
OnResetAppState ==
    /\ DashboardControls
    /\ ~loading                                    \* canResetCategories
    /\ ~\E p \in inflight : p.kind = "reset"       \* isResettingSettings
    /\ overrides' = ResetOverrides(overrides)
    /\ categories' = defaultCategories
    /\ editingCategory' = Undefined
    /\ savingsAccounts' = <<>>
    /\ txs' = ResetTxs(txs)
    /\ sessionStorage' = SaveTxs(txs', statementDetails)
    /\ error' = FALSE
    /\ IF isAccountMode
       THEN /\ loading' = TRUE
            /\ inflight' = inflight \cup
                   {Handler("reset", "save", FALSE, txs, defaultCategories,
                            ResetOverrides(overrides), Undefined, Undefined, NoFile)}
            /\ UNCHANGED localStore
       ELSE /\ loading' = FALSE
            /\ localStore' = SaveLocally(defaultCategories, ResetOverrides(overrides))
            /\ UNCHANGED inflight
    /\ UNCHANGED <<entryMode, userEmail, authLoading, cookieConsent, statementDetails,
                   pendingLoad, remoteStore>>

InitEdits ==
    InitWith({"anonymous", "account"}, {GroceriesStore, ShoppingStore}, RemoteProfiles, MaxActions)

\* the edits of the override map and of the Category Set
CategoryEdit ==
    \/ \E c \in categories \cap {Food, Misc} :
           OnOverrideMerchant(txs[1].merchant, txs[1].title, c)
    \/ \E c \in categories \cap {Food, Misc} : OnOverrideTransaction(txs[1], c)
    \/ HandleAddCategory(Misc)
    \/ \E button \in BOOLEAN : ApplyRenameCategory(Misc, button)
    \/ \E name \in categories \cap {Food, Shopping} : HandleDeleteCategory(name)
    \/ OnResetAppState

NextEdits ==
    \/ \E session \in {NoUser, UserA} : Bootstrap(session)
    \/ CommitLoad
    \/ \E name \in categories \cap {Groceries, Shopping} : StartRenameCategory(name)
    \/ CategoryEdit
    \/ \E p \in inflight : SaveDone(p)
    \/ \E p \in inflight : CategorizeDone(p)
    \/ \E p \in inflight : HandlerFail(p)

SpecEdits == InitEdits /\ [][NextEdits]_vars

OverridesInSet(ovr, cats) == \A i \in 1..Len(ovr) : ovr[i][2] \in cats

\* C30: when every value of the override map, alias targets included, is a
\* member of the Category Set, that is so again after onOverrideMerchant,
\* onOverrideTransaction (category taken from the set), handleAddCategory,
\* applyRenameCategory, handleDeleteCategory and onResetAppState, and after
\* the completion or failure of the saves and passes they start.
C30_OverrideValuesStayInSet ==
    [][(/\ OverridesInSet(overrides, categories)
        /\ \/ CategoryEdit
           \/ \E p \in inflight : SaveDone(p) \/ CategorizeDone(p) \/ HandlerFail(p))
       => OverridesInSet(overrides', categories')]_vars

\* the stored rename 'Groceries' -> 'Food' after a reset: 'Food' is gone
\* from the set and the alias points at 'Other'
C30_AliasResetToOther ==
    /\ categories = defaultCategories
    /\ Food \notin categories
    /\ ObjHas(overrides, makeCategoryAliasKey(Groceries))
    /\ ObjGet(overrides, makeCategoryAliasKey(Groceries)) = Other
    /\ OverridesInSet(overrides, categories)
    /\ inflight = {}

====
